---- MODULE Spec2Model ----
(***************************************************************************)
(* A model of bmpinspect: the decode pipeline of readBmp over a file       *)
(* buffer.  The file is a byte buffer (an explicit prefix followed by a    *)
(* constant fill byte up to its size); every field is decoded from the     *)
(* bytes with the little-endian readers of the program.  Each stage of     *)
(* readBmp is one action; every slice and index expression a stage         *)
(* evaluates is recorded and checked against the buffer.  The loops that   *)
(* print the pixels take one step per row (uncompressed) or per pair of    *)
(* bytes (RLE).                                                            *)
(*                                                                         *)
(* Integers of the model are below 2^31: the inputs keep every unsigned    *)
(* 32-bit field below 2^31 (top byte < 128).                               *)
(***************************************************************************)
EXTENDS Integers, Sequences, FiniteSets, TLC

VARIABLES data, ctx, pc, err, out, palette, rowPhysical, rlectx, rle, pixels

vars == <<data, ctx, pc, err, out, palette, rowPhysical, rlectx, rle, pixels>>

\* the state of the pixel printers
decoder == <<rowPhysical, rlectx, rle, pixels>>

(***************************************************************************)
(* Bounds of the input family.                                             *)
(***************************************************************************)
\* widths of the generated images run over 0..MaxWidth (and a few outliers)
MaxWidth == 5
\* heights of the generated images run over -MaxHeight..MaxHeight
MaxHeight == 2
\* a generated file may carry up to MaxExtra bytes more than it needs
MaxExtra == 2
\* a generated RLE stream holds up to MaxPairs pairs of bytes
MaxPairs == 2
\* literal runs of 3 to MaxRun pixels are generated, and the longest two
MaxRun == 10

(***************************************************************************)
(* Program constants.                                                      *)
(***************************************************************************)
bI_RGB == 0
bI_RLE8 == 1
bI_RLE4 == 2
bI_BITFIELDS == 3
bI_JPEG == 4
bI_RLE24 == 4
bI_PNG == 5
bI_ALPHABITFIELDS == 6

\* 0x4c494e4b and 0x4d424544
pROFILE_LINKED == 1279872587
pROFILE_EMBEDDED == 1296188740

\* the bfType values of fileTypeNames, as byte pairs
fileTypeNames ==
  { <<66, 65>>, <<66, 77>>, <<67, 73>>, <<67, 80>>, <<73, 67>>, <<80, 84>> }

\* the keys of versionInfo
versionInfo ==
  { "os2v1", "os2v2", "winv2", "winv3", "52", "56", "winv4", "winv5" }

NoErr == "nil"

(***************************************************************************)
(* The file buffer and the primitive readers.                              *)
(***************************************************************************)
\* data[i]
ByteAt(d, i) == IF i < Len(d.bytes) THEN d.bytes[i + 1] ELSE d.fill

\* WORD is an unsigned 16-bit little-endian integer.
getWORD(d, o) == ByteAt(d, o) + 256 * ByteAt(d, o + 1)

\* DWORD is an unsigned 32-bit little-endian integer.
getDWORD(d, o) ==
  ByteAt(d, o) + 256 * ByteAt(d, o + 1) + 65536 * ByteAt(d, o + 2)
    + 16777216 * ByteAt(d, o + 3)

\* LONG is a signed 32-bit little-endian integer: int32(getDWORD(d)).
getLONG(d, o) ==
  LET b3 == ByteAt(d, o + 3)
  IN  ByteAt(d, o) + 256 * ByteAt(d, o + 1) + 65536 * ByteAt(d, o + 2)
        + 16777216 * (IF b3 >= 128 THEN b3 - 256 ELSE b3)

\* Go's integer division truncates toward zero.
GoDiv(a, b) == IF a >= 0 THEN a \div b ELSE -((-a) \div b)

\* 1 << n
Pow2(n) == 2 ^ n

(***************************************************************************)
(* Accesses.  An access <<lo, hi, lim>> is a slice expression x[lo:hi] or  *)
(* an index expression x[lo] (hi = lo+1), in absolute file offsets, on a   *)
(* slice whose capacity (for a slice expression) or length (for an index   *)
(* expression) ends at lim.  It is in range iff 0 <= lo <= hi <= lim.      *)
(***************************************************************************)
Sl(c, lo, hi) == <<lo, hi, c.fileSize>>
Ix(i, lim) == <<i, i + 1, lim>>
InRange(a) == 0 <= a[1] /\ a[1] <= a[2] /\ a[2] <= a[3]
AllInRange(acc) == \A a \in acc : InRange(a)

(***************************************************************************)
(* The input family.  A file is generated from header field values, laid   *)
(* out as the BMP format lays them out, then cut or extended to a size.    *)
(***************************************************************************)
Min(a, b) == IF a < b THEN a ELSE b
Max(a, b) == IF a > b THEN a ELSE b
Abs(a) == IF a < 0 THEN -a ELSE a

LE16(v) == LET u == v % 65536 IN << u % 256, u \div 256 >>
LE32(v) ==
  IF v >= 0
  THEN << v % 256, (v \div 256) % 256, (v \div 65536) % 256, v \div 16777216 >>
  ELSE LET u == (v + 2147483647) + 1
       IN  << u % 256, (u \div 256) % 256, (u \div 65536) % 256,
              (u \div 16777216) + 128 >>
Zeros(n) == [i \in 1..n |-> 0]

FileHeaderBytes(f) ==
  f.type \o LE32(f.bfSize) \o LE16(0) \o LE16(0) \o LE32(f.bfOffBits)

\* BITMAPCOREHEADER
CoreHeaderBytes(f) ==
  LE32(f.ihs) \o LE16(f.w) \o LE16(f.h) \o LE16(f.planes) \o LE16(f.bc)

\* BITMAPV5HEADER, of which the shorter headers are prefixes
V5HeaderBytes(f) ==
  LE32(f.ihs) \o LE32(f.w) \o LE32(f.h) \o LE16(f.planes) \o LE16(f.bc)
    \o LE32(f.compr) \o LE32(f.sizeImage) \o LE32(0) \o LE32(0)
    \o LE32(f.clrUsed) \o LE32(0)
    \o Zeros(16) \o LE32(f.csType) \o Zeros(36) \o Zeros(12)
    \o LE32(0) \o LE32(f.profData) \o LE32(f.profSize) \o LE32(0)

\* the bytes pal follow the header; the body of a file lies at the
\* pixel-data offset, after the bytes (zero where pal gives none) of the
\* bitfields and of the color table
ImageBytes(f) ==
  FileHeaderBytes(f)
    \o (IF f.ihs = 12 THEN CoreHeaderBytes(f)
        ELSE SubSeq(V5HeaderBytes(f), 1, Min(f.ihs, 124)))
    \o f.pal
    \o (IF Len(f.body) > 0
        THEN Zeros(Max(0, f.bfOffBits - (14 + f.ihs) - Len(f.pal)))
        ELSE << >>)
    \o f.body

MkFile(f, size) ==
  [ size |-> size,
    bytes |-> SubSeq(ImageBytes(f), 1, Min(size, Len(ImageBytes(f)))),
    fill |-> f.fill ]

Dflt ==
  [ type |-> <<66, 77>>, bfSize |-> 0, bfOffBits |-> 0, ihs |-> 40,
    w |-> 2, h |-> 2, planes |-> 1, bc |-> 24, compr |-> 0, sizeImage |-> 0,
    clrUsed |-> 0, csType |-> 0, profData |-> 0, profSize |-> 0,
    fill |-> 0, pal |-> <<>>, body |-> <<>> ]

\* what a well-formed file of these fields carries between header and bits
GenBitfields(f) ==
  IF f.ihs = 40 /\ f.bfSize # 54 /\ f.compr = 3 THEN 12
  ELSE IF f.ihs = 40 /\ f.bfSize # 54 /\ f.compr = 6 THEN 16 ELSE 0
GenPalEntries(f) ==
  IF f.ihs = 12 THEN (IF f.bc <= 8 THEN 2 ^ f.bc ELSE 0)
  ELSE LET cu == IF f.ihs >= 36 THEN f.clrUsed ELSE 0
       IN  IF f.bc >= 1 /\ f.bc <= 8 /\ cu = 0 THEN 2 ^ f.bc ELSE cu
GenPalBytes(f) == (IF f.ihs = 12 THEN 3 ELSE 4) * GenPalEntries(f)
GenOffBits(f) == 14 + f.ihs + GenBitfields(f) + GenPalBytes(f)
GenStride(f) == IF f.w < 0 THEN 0 ELSE (((f.w * f.bc) + 31) \div 32) * 4
GenBitsSize(f) ==
  IF Len(f.body) > 0 THEN Len(f.body) ELSE GenStride(f) * Abs(f.h)

\* the fields with the pixel-data offset set: natural, or displaced by g
WithOff(f, g) == [f EXCEPT !.bfOffBits = Max(0, GenOffBits(f) + g)]

\* sizes at which a file of these fields is cut or to which it is extended
EndOf(f) == f.bfOffBits + GenBitsSize(f)
AllCuts(f) ==
  { 0, 17, 18, 29, 30, 33, 34, 14 + f.ihs - 1, 14 + f.ihs,
    f.bfOffBits - 1, f.bfOffBits, EndOf(f) - 1, EndOf(f),
    EndOf(f) + MaxExtra } \cap Nat
FewCuts(f) == { 14 + f.ihs + 3, f.bfOffBits - 1, EndOf(f) + MaxExtra } \cap Nat
\* a stream ends with the file, or is followed by one byte, or by two pairs
\* and a byte
StreamCuts(f) == { EndOf(f), EndOf(f) + 1, EndOf(f) + 5 }
\* a file cut in its headers or in its color table; one file holds the
\* whole of the largest color table
HeaderCuts(f) ==
  { 33, 34, 14 + f.ihs - 1, 14 + f.ihs, f.bfOffBits - 1 }
    \cup (IF f.ihs = 40 /\ f.bc = 8 /\ f.clrUsed = 100000 /\ f.compr = 0
          THEN { EndOf(f) } ELSE {})

Files(fields, cuts) ==
  UNION { { MkFile(f, s) :
              s \in (CASE cuts = "all" -> AllCuts(f)
                       [] cuts = "few" -> FewCuts(f)
                       [] cuts = "stream" -> StreamCuts(f)
                       [] cuts = "header" -> HeaderCuts(f)) } :
            f \in fields }

IHSizes == { 11, 12, 15, 16, 20, 32, 36, 40, 44, 52, 56, 64, 65, 108, 124, 125 }
Depths == { 1, 2, 4, 8, 16, 24, 32 }

\* version detection: header size, reported size, depth and compression
DetectFields ==
  { WithOff([Dflt EXCEPT !.ihs = s, !.bfSize = z, !.bc = b, !.compr = c], 0) :
      <<s, z, b, c>> \in
        { q \in IHSizes \X {0, 26, 54, 78} \X {1, 24} \X {0, 3, 4} :
            q[2] \in {0, 14 + q[1]} } }

\* depth / variant / compression combinations
DepthFields ==
  { WithOff([Dflt EXCEPT !.ihs = s, !.bfSize = z, !.bc = b, !.compr = c], 0) :
      <<s, z, b, c>> \in
        { q \in {12, 40, 52, 56, 64, 108, 124} \X {0, 54} \X
                (Depths \cup {0, 3}) \X (0..7) :
            q[2] = 54 => q[1] = 40 } }

\* palette sizing: depth and colors-used, with the offset displaced
PaletteFields ==
  { WithOff([Dflt EXCEPT !.ihs = s, !.bc = b, !.clrUsed = u, !.compr = c], g) :
      <<s, b, u, c, g>> \in
        { q \in {12, 16, 32, 36, 40, 64, 124} \X {0, 1, 4, 8, 24} \X
                {0, 1, 3} \X {0, 4} \X {-2, 0, 3} :
            /\ q[4] = 4 => q[2] = 0
            /\ q[5] # 0 => q[3] \in {0, 3} } }

\* the largest palette accepted and the smallest refused, in files that end
\* before the color table does (but for one, see HeaderCuts)
BigPaletteFields ==
  { WithOff([Dflt EXCEPT !.ihs = s, !.bc = b, !.clrUsed = u, !.compr = c], 0) :
      <<s, b, u, c>> \in
        { q \in {36, 40, 64, 124} \X {0, 1, 4, 8, 24} \X {100000, 100001}
                 \X {0, 4} :
            q[4] = 4 => q[2] = 0 } }

\* color tables whose bytes all differ, up to the pixel-data offset
ColorFields ==
  { [f EXCEPT !.pal = [k \in 1..Max(0, f.bfOffBits - (14 + f.ihs)) |->
                         (15 * k) + 1]] :
      f \in { WithOff([Dflt EXCEPT !.ihs = s, !.bc = b, !.clrUsed = u,
                                   !.w = 1, !.h = 1], g) :
                <<s, b, u, g>> \in {12, 40, 64} \X {1, 2, 24} \X {0, 3}
                                  \X {-2, 0} } }

\* geometry: width, height and depth
Widths == (-1..MaxWidth) \cup {8000001}
Heights == (-MaxHeight)..MaxHeight
GeometryFields ==
  { WithOff([Dflt EXCEPT !.ihs = s, !.w = x, !.h = y, !.bc = b], 0) :
      <<s, x, y, b>> \in
        { q \in {12, 40} \X Widths \X Heights \X Depths :
            q[1] = 12 =>
              (q[2] >= 0 /\ q[2] <= MaxWidth /\ q[3] >= 0 /\ q[4] <= 24) } }

\* rows whose bytes all differ, stored bottom-up and top-down
RowFields ==
  { [f EXCEPT !.body = [k \in 1..(GenStride(f) * Abs(f.h)) |-> (7 * k) + 1]] :
      f \in { WithOff([Dflt EXCEPT !.ihs = s, !.w = x, !.h = y, !.bc = b], 0) :
                <<s, x, y, b>> \in
                  { q \in {12, 40} \X {1, 2} \X {-2, 1, 2} \X {8, 24} :
                      q[1] = 12 => q[3] >= 0 } } }

\* indexed pixels, all bits clear or all bits set, over small palettes
PixelFields ==
  { WithOff([Dflt EXCEPT !.w = 3, !.bc = b, !.clrUsed = u,
                         !.body = v], 0) :
      <<b, u, v>> \in {1, 2, 4, 8} \X {1, 2}
                        \X { [i \in 1..8 |-> 0], [i \in 1..8 |-> 255],
                             <<1, 2, 3, 0, 4, 5, 6, 0>> } }

\* RLE streams: every sequence of up to MaxPairs of these pairs
RLEPairs ==
  { <<0, 0>>, <<0, 1>>, <<0, 2>>, <<0, 3>>, <<0, 5>>, <<1, 47>>, <<3, 241>> }
Flat(ps) == [i \in 1..(2 * Len(ps)) |-> ps[(i + 1) \div 2][2 - (i % 2)]]
RLEStreams == UNION { [1..n -> RLEPairs] : n \in 0..MaxPairs }
RLEFields ==
  { WithOff([Dflt EXCEPT !.ihs = t[1], !.bc = t[2], !.compr = t[3],
                         !.clrUsed = t[4], !.body = Flat(ps)], 0) :
      <<t, ps>> \in { <<40, 8, bI_RLE8, 2>>, <<40, 4, bI_RLE4, 2>>,
                      <<64, 24, bI_RLE24, 0>> } \X RLEStreams }

\* streams of compressed runs whose palette indices are in and out of a
\* palette of two entries, with the codes that end rows
RunStreams ==
  { << <<1, 1>>, <<1, 15>>, <<2, 15>>, <<3, 241>>, <<0, 0>>, <<2, 47>>,
       <<0, 1>> >>,
    << <<2, 16>>, <<4, 18>>, <<0, 0>>, <<1, 32>>, <<0, 1>> >>,
    << <<3, 17>>, <<0, 0>>, <<5, 1>> >>,
    << <<4, 1>>, <<3, 1>>, <<3, 16>>, <<0, 1>> >> }
RunFields ==
  { WithOff([Dflt EXCEPT !.ihs = t[1], !.bc = t[2], !.compr = t[3],
                         !.clrUsed = t[4], !.w = 8, !.h = 2,
                         !.body = Flat(ps)], 0) :
      <<t, ps>> \in { <<40, 8, bI_RLE8, 2>>, <<40, 4, bI_RLE4, 2>>,
                      <<64, 24, bI_RLE24, 0>> } \X RunStreams }

\* literal runs: the code (0, N), the pairs that hold N pixels of the depth
\* (the last padded), then the end of the bitmap
RunLengths == (3..MaxRun) \cup { 254, 255 }
GenRunPairs(bc, n) ==
  CASE bc = 4 -> (n + 3) \div 4
    [] bc = 8 -> (n + 1) \div 2
    [] bc = 24 -> ((3 * n) + 1) \div 2
LiteralFields ==
  { WithOff([Dflt EXCEPT !.ihs = t[1], !.bc = t[2], !.compr = t[3],
                         !.clrUsed = t[4], !.w = x, !.h = 1,
                         !.body = << 0, n >>
                                    \o [ k \in 1..(2 * GenRunPairs(t[2], n)) |->
                                           ((13 * k) + 5) % 256 ]
                                    \o << 0, 1 >>], 0) :
      <<t, n, x>> \in { <<40, 8, bI_RLE8, 2>>, <<40, 4, bI_RLE4, 2>>,
                        <<64, 24, bI_RLE24, 0>> } \X RunLengths \X {4, 300} }

\* compressed images stored top-down and bottom-up, over a stream that
\* decodes to a run, an end of line and an end of bitmap
TopDownFields ==
  { WithOff([Dflt EXCEPT !.ihs = t[1], !.bc = t[2], !.compr = t[3], !.h = y,
                         !.w = 3,
                         !.body = Flat(<< <<3, 241>>, <<0, 0>>, <<0, 1>> >>)],
            0) :
      <<t, y>> \in { <<40, 8, bI_RLE8>>, <<40, 4, bI_RLE4>>, <<64, 24, 4>>,
                     <<64, 1, 3>>, <<124, 24, bI_JPEG>>, <<124, 24, bI_PNG>>,
                     <<40, 8, 7>> } \X {-2, 2} }

\* color profiles of version 5 headers, after uncompressed bits and after
\* bits of a compression that is not decoded
ProfileFields ==
  { [WithOff([Dflt EXCEPT !.ihs = 124, !.csType = t, !.profSize = z,
                          !.compr = c], 0)
       EXCEPT !.profData = 124 + 16 + d, !.body = Zeros(16 + Max(d, 0) + 4)] :
      <<t, d, z, c>> \in {0, pROFILE_LINKED, pROFILE_EMBEDDED} \X {-1, 0, 2}
                          \X {0, 4, 9} \X {bI_RGB, bI_JPEG} }

\* other file types
TypeFields ==
  { WithOff([Dflt EXCEPT !.type = t], 0) :
      t \in { <<66, 65>>, <<88, 88>>, <<67, 73>> } }

InputFiles ==
  Files(DetectFields, "all") \cup Files(DepthFields, "few")
    \cup Files(PaletteFields, "all") \cup Files(BigPaletteFields, "header")
    \cup Files(ColorFields, "all") \cup Files(GeometryFields, "all")
    \cup Files(ProfileFields, "all") \cup Files(TypeFields, "few")
    \cup Files(PixelFields, "all") \cup Files(RowFields, "few")
    \cup Files(RLEFields, "stream") \cup Files(TopDownFields, "stream")
    \cup Files(LiteralFields, "stream") \cup Files(RunFields, "stream")

(***************************************************************************)
(* ctx_type, as main() allocates it (every field zero).                    *)
(***************************************************************************)
ctx_type ==
  [ fileSize |-> 0, pos |-> 0, printPixels |-> FALSE,
    fileType |-> <<>>, bmpVerID |-> "",
    bitCount |-> 0, imgWidth |-> 0, imgHeight |-> 0, bfOffBits |-> 0,
    infoHeaderSize |-> 0, sizeImage |-> 0, compressionCode |-> 0,
    compressionType |-> "",
    palNumEntries |-> 0, palBytesPerEntry |-> 0, palSizeInBytes |-> 0,
    hasBitfieldsSegment |-> FALSE, bitfieldsSegmentSize |-> 0,
    hasProfile |-> FALSE, profileIsLinked |-> FALSE,
    profileOffset |-> 0, profileSize |-> 0,
    isCompressed |-> FALSE, topDown |-> FALSE,
    rowStride |-> 0, calculatedSize |-> 0, actualBitsSize |-> 0,
    badColorFlag |-> FALSE, badColorWarned |-> FALSE,
    badColorIndex |-> 0, badColor_X |-> 0, badColor_Y |-> 0 ]

\* the result of a function that returns an error: the context it leaves,
\* the error, the lines it printed and the accesses it made
Ret(c, e, o, a) == [ctx |-> c, err |-> e, out |-> o, acc |-> a]

(***************************************************************************)
(* detectVersion                                                           *)
(***************************************************************************)
\* the accesses of detectVersion(ctx, ctx.data)
detectVersionAcc(c, d) ==
  IF d.size < 18 THEN {}
  ELSE { Sl(c, c.pos + 2, c.pos + 6), Sl(c, c.pos + 14, c.pos + 18) }
         \cup (IF d.size >= 30 THEN { Sl(c, c.pos + 28, c.pos + 30) } ELSE {})
         \cup (IF d.size >= 34 THEN { Sl(c, c.pos + 30, c.pos + 34) } ELSE {})

\* detectVersion with the reported size taken for the size of the file
detectVersion_actualSize(c, d) ==
  LET fsize == d.size
      infoHeaderSize == getDWORD(d, c.pos + 14)
      bitCount == IF d.size >= 30 THEN getWORD(d, c.pos + 28) ELSE 0
      compression == IF d.size >= 34 THEN getDWORD(d, c.pos + 30) ELSE 0
      os2CmprFlag == \/ (compression = 3 /\ bitCount = 1)
                     \/ (compression = 4 /\ bitCount = 24)
  IN  IF d.size < 18 THEN c.bmpVerID
      ELSE IF infoHeaderSize = 12 /\ fsize = 14 + infoHeaderSize THEN "os2v1"
      ELSE IF infoHeaderSize = 12 THEN "winv2"
      ELSE IF (os2CmprFlag \/ fsize = 14 + infoHeaderSize)
                /\ infoHeaderSize >= 16 /\ infoHeaderSize <= 64 THEN "os2v2"
      ELSE IF infoHeaderSize = 40 THEN "winv3"
      ELSE IF infoHeaderSize = 52 THEN "52"
      ELSE IF infoHeaderSize = 56 THEN "56"
      ELSE IF infoHeaderSize >= 16 /\ infoHeaderSize <= 64 THEN "os2v2"
      ELSE IF infoHeaderSize = 108 THEN "winv4"
      ELSE IF infoHeaderSize = 124 THEN "winv5"
      ELSE "unknown"

\* detectVersion with every 12-byte header taken for OS/2 v1
detectVersion_all12(c, d) ==
  LET fsize == getDWORD(d, c.pos + 2)
      infoHeaderSize == getDWORD(d, c.pos + 14)
      bitCount == IF d.size >= 30 THEN getWORD(d, c.pos + 28) ELSE 0
      compression == IF d.size >= 34 THEN getDWORD(d, c.pos + 30) ELSE 0
      os2CmprFlag == \/ (compression = 3 /\ bitCount = 1)
                     \/ (compression = 4 /\ bitCount = 24)
  IN  IF d.size < 18 THEN c.bmpVerID
      ELSE IF infoHeaderSize = 12 THEN "os2v1"
      ELSE IF (os2CmprFlag \/ fsize = 14 + infoHeaderSize)
                /\ infoHeaderSize >= 16 /\ infoHeaderSize <= 64 THEN "os2v2"
      ELSE IF infoHeaderSize = 40 THEN "winv3"
      ELSE IF infoHeaderSize = 52 THEN "52"
      ELSE IF infoHeaderSize = 56 THEN "56"
      ELSE IF infoHeaderSize >= 16 /\ infoHeaderSize <= 64 THEN "os2v2"
      ELSE IF infoHeaderSize = 108 THEN "winv4"
      ELSE IF infoHeaderSize = 124 THEN "winv5"
      ELSE "unknown"

\* detectVersion with the exact Windows sizes tested before the OS/2 heuristic
detectVersion_exactFirst(c, d) ==
  LET fsize == getDWORD(d, c.pos + 2)
      infoHeaderSize == getDWORD(d, c.pos + 14)
      bitCount == IF d.size >= 30 THEN getWORD(d, c.pos + 28) ELSE 0
      compression == IF d.size >= 34 THEN getDWORD(d, c.pos + 30) ELSE 0
      os2CmprFlag == \/ (compression = 3 /\ bitCount = 1)
                     \/ (compression = 4 /\ bitCount = 24)
  IN  IF d.size < 18 THEN c.bmpVerID
      ELSE IF infoHeaderSize = 12 /\ fsize = 14 + infoHeaderSize THEN "os2v1"
      ELSE IF infoHeaderSize = 12 THEN "winv2"
      ELSE IF infoHeaderSize = 40 THEN "winv3"
      ELSE IF infoHeaderSize = 52 THEN "52"
      ELSE IF infoHeaderSize = 56 THEN "56"
      ELSE IF infoHeaderSize >= 16 /\ infoHeaderSize <= 64 THEN "os2v2"
      ELSE IF infoHeaderSize = 108 THEN "winv4"
      ELSE IF infoHeaderSize = 124 THEN "winv5"
      ELSE "unknown"

\* the ctx.bmpVerID detectVersion(ctx, ctx.data) leaves
detectVersion(c, d) ==
  LET fsize == getDWORD(d, c.pos + 2)
      infoHeaderSize == getDWORD(d, c.pos + 14)
      bitCount == IF d.size >= 30 THEN getWORD(d, c.pos + 28) ELSE 0
      compression == IF d.size >= 34 THEN getDWORD(d, c.pos + 30) ELSE 0
      os2CmprFlag == \/ (compression = 3 /\ bitCount = 1)
                     \/ (compression = 4 /\ bitCount = 24)
  IN  IF d.size < 18 THEN c.bmpVerID
      ELSE IF infoHeaderSize = 12 /\ fsize = 14 + infoHeaderSize THEN "os2v1"
      ELSE IF infoHeaderSize = 12 THEN "winv2"
      ELSE IF (os2CmprFlag \/ fsize = 14 + infoHeaderSize)
                /\ infoHeaderSize >= 16 /\ infoHeaderSize <= 64 THEN "os2v2"
      ELSE IF infoHeaderSize = 40 THEN "winv3"
      ELSE IF infoHeaderSize = 52 THEN "52"
      ELSE IF infoHeaderSize = 56 THEN "56"
      ELSE IF infoHeaderSize >= 16 /\ infoHeaderSize <= 64 THEN "os2v2"
      ELSE IF infoHeaderSize = 108 THEN "winv4"
      ELSE IF infoHeaderSize = 124 THEN "winv5"
      ELSE "unknown"

(***************************************************************************)
(* inspectFileheader(ctx, d) with d = ctx.data[base : base+n]              *)
(***************************************************************************)
inspectFileheaderAcc(c, d, base, n) ==
  { Sl(c, base, base + 2), Ix(base, base + n), Ix(base + 1, base + n) }

inspectFileheaderOk(c, d, base, n) ==
  Ret([c EXCEPT !.bmpVerID = detectVersion(c, d),
                !.bfOffBits = getDWORD(d, base + 10)],
      NoErr,
      << "FILEHEADER" >>
        \o (IF getDWORD(d, base + 2) # c.fileSize
               /\ getDWORD(d, base + 2) # 14 + c.infoHeaderSize
            THEN << "Warning: Reported file size" >> ELSE << >>),
      inspectFileheaderAcc(c, d, base, n) \cup detectVersionAcc(c, d)
        \cup { Sl(c, base + 2, base + 6), Sl(c, base + 6, base + 8),
               Sl(c, base + 8, base + 10), Sl(c, base + 10, base + 14) })

inspectFileheader(c, d, base, n) ==
  LET fileType == << ByteAt(d, base), ByteAt(d, base + 1) >>
  IN  IF fileType \notin fileTypeNames
      THEN Ret([c EXCEPT !.fileType = fileType], "Not a BMP file",
               << "FILEHEADER" >>, inspectFileheaderAcc(c, d, base, n))
      ELSE IF fileType # <<66, 77>>
      THEN Ret([c EXCEPT !.fileType = fileType], "File type not supported",
               << "FILEHEADER" >>, inspectFileheaderAcc(c, d, base, n))
      ELSE inspectFileheaderOk([c EXCEPT !.fileType = fileType], d, base, n)

(***************************************************************************)
(* The header decoders.  inspectX(c, d, base, n) is X(ctx, slice) for the  *)
(* slice ctx.data[base : base+n].                                          *)
(***************************************************************************)
\* palNumEntriesOS2 without the clipping
palNumEntriesOS2_unclipped(c, bcBitCount) == Pow2(bcBitCount)

\* the palette entry count inspectInfoheaderOS2 sets for a depth <= 8
palNumEntriesOS2(c, bcBitCount) ==
  LET bytesAvailableForPalette == c.bfOffBits - (14 + c.infoHeaderSize)
  IN  IF bytesAvailableForPalette >= 3
         /\ bytesAvailableForPalette < 3 * Pow2(bcBitCount)
      THEN bytesAvailableForPalette \div 3
      ELSE Pow2(bcBitCount)

inspectInfoheaderOS2(c, d, base, n) ==
  LET bcBitCount == getWORD(d, base + 10)
  IN  Ret([c EXCEPT !.imgWidth = getWORD(d, base + 4),
                    !.imgHeight = getWORD(d, base + 6),
                    !.bitCount = bcBitCount,
                    !.palBytesPerEntry = 3,
                    !.palNumEntries =
                       IF bcBitCount <= 8 THEN palNumEntriesOS2(c, bcBitCount)
                       ELSE @],
          NoErr,
          << "Width", "Height", "Planes", "BitCount" >>
            \o (IF bcBitCount <= 8
                   /\ palNumEntriesOS2(c, bcBitCount) # Pow2(bcBitCount)
                THEN << "Warning: Bitmap overlaps color table" >> ELSE << >>),
          { Sl(c, base + 4, base + 6), Sl(c, base + 6, base + 8),
            Sl(c, base + 8, base + 10), Sl(c, base + 10, base + 12) })

\* getCompressionCodeInfo without the OS/2 v2 meanings of the codes 3 and 4
getCompressionCodeInfo_windows(c) ==
  CASE c.compressionCode = bI_RGB -> "none"
    [] c.compressionCode = bI_RLE8 -> "rle8"
    [] c.compressionCode = bI_RLE4 -> "rle4"
    [] c.compressionCode = 3 -> "none"
    [] c.compressionCode = 4 -> "jpeg"
    [] c.compressionCode = bI_PNG -> "png"
    [] c.compressionCode = bI_ALPHABITFIELDS -> "none"
    [] OTHER -> "unknown"

\* the compression algorithm getCompressionCodeInfo returns
getCompressionCodeInfo(c) ==
  CASE c.compressionCode = bI_RGB -> "none"
    [] c.compressionCode = bI_RLE8 -> "rle8"
    [] c.compressionCode = bI_RLE4 -> "rle4"
    [] c.compressionCode = 3 ->
         IF c.bmpVerID = "os2v2" THEN "huffman1d" ELSE "none"
    [] c.compressionCode = 4 ->
         IF c.bmpVerID = "os2v2" THEN "rle24" ELSE "jpeg"
    [] c.compressionCode = bI_PNG -> "png"
    [] c.compressionCode = bI_ALPHABITFIELDS -> "none"
    [] OTHER -> "unknown"

\* palNumEntriesV3 without the test biBitCount > 0
palNumEntriesV3_depth0(biBitCount, biClrUsed) ==
  IF biBitCount <= 8
  THEN (IF biClrUsed = 0 THEN Pow2(biBitCount) ELSE biClrUsed)
  ELSE biClrUsed

\* the palette entry count inspectInfoheaderV3 sets
palNumEntriesV3(biBitCount, biClrUsed) ==
  IF biBitCount > 0 /\ biBitCount <= 8
  THEN (IF biClrUsed = 0 THEN Pow2(biBitCount) ELSE biClrUsed)
  ELSE biClrUsed

\* inspectInfoheaderV3: Width, Height, Planes, BitCount
v3Geometry(c, biWidth, biHeight, biBitCount) ==
  [c EXCEPT !.imgWidth = biWidth,
            !.topDown = IF biHeight < 0 THEN TRUE ELSE @,
            !.imgHeight = IF biHeight < 0 THEN -biHeight ELSE biHeight,
            !.printPixels =
               IF biWidth < 1
                  \/ (IF biHeight < 0 THEN -biHeight ELSE biHeight) < 1
               THEN FALSE ELSE @,
            !.bitCount = biBitCount]

\* badTopDown letting every image pass
badTopDown_allowed(c) == FALSE

\* inspectInfoheaderV3: compressed images may not be top-down
badTopDown(c) ==
  c.isCompressed /\ c.compressionType # "unknown" /\ c.topDown

\* inspectInfoheaderV3: what follows from the compression code, once
\* ctx.compressionCode and ctx.compressionType are set
v3Compressed(c) ==
  [c EXCEPT !.isCompressed = (c.compressionType # "none"),
            !.printPixels =
               IF badTopDown([c EXCEPT !.isCompressed =
                                         (c.compressionType # "none")])
               THEN FALSE ELSE @,
            !.hasBitfieldsSegment =
               IF c.compressionCode \in { bI_BITFIELDS, bI_ALPHABITFIELDS }
                  /\ c.bmpVerID = "winv3"
               THEN TRUE ELSE @,
            !.bitfieldsSegmentSize =
               IF c.compressionCode = bI_BITFIELDS /\ c.bmpVerID = "winv3"
               THEN 12
               ELSE IF c.compressionCode = bI_ALPHABITFIELDS
                       /\ c.bmpVerID = "winv3"
               THEN 16 ELSE @]

\* inspectInfoheaderV3: the Compression field, if len(d) >= 20
v3Compression(c, n, code) ==
  IF n >= 20
  THEN v3Compressed(
         [c EXCEPT !.compressionCode = code,
                   !.compressionType =
                      getCompressionCodeInfo([c EXCEPT !.compressionCode = code])])
  ELSE c

\* inspectInfoheaderV3: the SizeImage field, if len(d) >= 24
v3SizeImage(c, n, sizeImage) ==
  IF n >= 24 THEN [c EXCEPT !.sizeImage = sizeImage] ELSE c

\* v3Palette with the 3-byte entries of OS/2 v1 for OS/2 v2 as well
v3Palette_os2(c, biBitCount, biClrUsed) ==
  [c EXCEPT !.palBytesPerEntry = IF c.bmpVerID = "os2v2" THEN 3 ELSE 4,
            !.palNumEntries = palNumEntriesV3(biBitCount, biClrUsed)]

\* inspectInfoheaderV3: the palette
v3Palette(c, biBitCount, biClrUsed) ==
  [c EXCEPT !.palBytesPerEntry = 4,
            !.palNumEntries = palNumEntriesV3(biBitCount, biClrUsed)]

\* the lines inspectInfoheaderV3 prints up to ClrUsed, c5 being the context
\* when it reads ClrUsed
v3Out(c5, n, biWidth, biPlanes) ==
  << "Width" >>
    \o (IF biWidth < 1 THEN << "Warning: Bad width" >> ELSE << >>)
    \o << "Height" >>
    \o (IF c5.imgHeight < 1 THEN << "Warning: Bad height" >> ELSE << >>)
    \o << "Planes" >>
    \o (IF biPlanes # 1 THEN << "Warning: Planes is required to be 1" >>
        ELSE << >>)
    \o << "BitCount" >>
    \o (IF n >= 20 THEN << "Compression" >> ELSE << >>)
    \o (IF n >= 20 /\ badTopDown(c5)
        THEN << "Warning: Compressed images may not be top-down" >>
        ELSE << >>)
    \o (IF n >= 24 THEN << "SizeImage" >> ELSE << >>)
    \o (IF c5.sizeImage = 0 /\ c5.isCompressed
        THEN << "Warning: SizeImage is required for compressed images" >>
        ELSE << >>)
    \o (IF n >= 28 THEN << "XPelsPerMeter" >> ELSE << >>)
    \o (IF n >= 32 THEN << "YPelsPerMeter" >> ELSE << >>)
    \o (IF n >= 36 THEN << "ClrUsed" >> ELSE << >>)

\* the accesses of inspectInfoheaderV3 up to ClrUsed
v3Acc(c, base, n) ==
  { Sl(c, base + 4, base + 8), Sl(c, base + 8, base + 12),
    Sl(c, base + 12, base + 14), Sl(c, base + 14, base + 16) }
    \cup { Sl(c, base + f[1], base + f[2]) :
             f \in { g \in { <<16, 20>>, <<20, 24>>, <<24, 28>>, <<28, 32>>,
                             <<32, 36>> } : n >= g[2] } }

\* inspectInfoheaderV3 from the ClrUsed field on, c5 being the context and
\* o5 the lines printed so far
v3ClrUsed(c, c5, o5, base, n, biBitCount, biClrUsed) ==
  IF n >= 36 /\ biClrUsed > 100000
  THEN Ret(c5, "Unreasonable color table size", o5, v3Acc(c, base, n))
  ELSE Ret(v3Palette(c5, biBitCount, biClrUsed), NoErr,
           o5 \o (IF n >= 40 THEN << "ClrImportant" >> ELSE << >>),
           v3Acc(c, base, n)
             \cup (IF n >= 40 THEN { Sl(c, base + 36, base + 40) } ELSE {}))

\* the context of inspectInfoheaderV3 when it reads ClrUsed
v3Fields(c, d, base, n) ==
  v3SizeImage(
    v3Compression(
      v3Geometry(c, getLONG(d, base + 4), getLONG(d, base + 8),
                 getWORD(d, base + 14)),
      n, getDWORD(d, base + 16)),
    n, getDWORD(d, base + 20))

v3Rest(c, c5, d, base, n) ==
  v3ClrUsed(c, c5, v3Out(c5, n, getLONG(d, base + 4), getWORD(d, base + 12)),
            base, n, getWORD(d, base + 14),
            IF n >= 36 THEN getDWORD(d, base + 32) ELSE 0)

\* len(d) is assumed to be at least 16.
inspectInfoheaderV3(c, d, base, n) ==
  v3Rest(c, v3Fields(c, d, base, n), d, base, n)

\* the fields inspectInfoheaderOS2V2 decodes after the first 40 bytes:
\* <<first byte, end, name>> of each, in the order it reads them
os2v2Fields ==
  << <<40, 42, "Units">>, <<42, 44, "Reserved">>, <<44, 46, "Recording">>,
     <<46, 48, "Rendering">>, <<48, 52, "Size1">>, <<52, 56, "Size2">>,
     <<56, 60, "ColorEncoding">>, <<60, 64, "Identifier">> >>

\* os2v2Decoded without the returns: all fields are decoded
os2v2Decoded_all(n) == Len(os2v2Fields)

\* the number of those fields inspectInfoheaderOS2V2 decodes from n bytes: it
\* returns at the first field that does not fit
os2v2Decoded(n) ==
  CHOOSE k \in 0..Len(os2v2Fields) :
    /\ \A j \in 1..k : n >= os2v2Fields[j][2]
    /\ k < Len(os2v2Fields) => n < os2v2Fields[k + 1][2]

os2v2Rest(c, r, base, n) ==
  IF r.err # NoErr THEN r
  ELSE Ret(r.ctx, NoErr,
           r.out \o [j \in 1..os2v2Decoded(n) |-> os2v2Fields[j][3]],
           r.acc \cup { Sl(c, base + os2v2Fields[j][1],
                           base + os2v2Fields[j][2]) :
                          j \in 1..os2v2Decoded(n) })

inspectInfoheaderOS2V2(c, d, base, n) ==
  os2v2Rest(c, inspectInfoheaderV3(c, d, base, n), base, n)

\* inspectInfoheaderV4: the CSType field
v4CSType(c, csType) ==
  IF csType = pROFILE_LINKED
  THEN [c EXCEPT !.hasProfile = TRUE, !.profileIsLinked = TRUE]
  ELSE IF csType = pROFILE_EMBEDDED THEN [c EXCEPT !.hasProfile = TRUE]
  ELSE c

\* the accesses of inspectInfoheaderV4 after the first 40 bytes
v4Acc(c, base, n) ==
  { Sl(c, base, base + 40), Sl(c, base + 40, base + 44),
    Sl(c, base + 44, base + 48), Sl(c, base + 48, base + 52) }
    \cup (IF n >= 56 THEN { Sl(c, base + 52, base + 56) } ELSE {})
    \cup (IF n >= 108
          THEN { Sl(c, base + 56, base + 60), Sl(c, base + 60, base + 96),
                 Sl(c, base + 96, base + 100), Sl(c, base + 100, base + 104),
                 Sl(c, base + 104, base + 108) }
          ELSE {})

v4Rest(c, r, d, base, n) ==
  IF r.err # NoErr
  THEN Ret(r.ctx, r.err, r.out, { Sl(c, base, base + 40) } \cup r.acc)
  ELSE Ret(IF n >= 108 THEN v4CSType(r.ctx, getDWORD(d, base + 56))
           ELSE r.ctx,
           NoErr,
           r.out \o << "RedMask", "GreenMask", "BlueMask" >>
             \o (IF n >= 56 THEN << "AlphaMask" >> ELSE << >>)
             \o (IF n >= 108 THEN << "CSType", "Endpoints", "Gamma" >>
                 ELSE << >>),
           r.acc \cup v4Acc(c, base, n))

inspectInfoheaderV4(c, d, base, n) ==
  v4Rest(c, inspectInfoheaderV3(c, d, base, 40), d, base, n)

v5Rest(c, r, d, base, n) ==
  IF r.err # NoErr
  THEN Ret(r.ctx, r.err, r.out, { Sl(c, base, base + 108) } \cup r.acc)
  ELSE Ret(IF r.ctx.hasProfile
           THEN [r.ctx EXCEPT !.profileOffset = 14 + getDWORD(d, base + 112),
                              !.profileSize = getDWORD(d, base + 116)]
           ELSE r.ctx,
           NoErr,
           r.out \o << "Intent", "ProfileData", "ProfileSize", "Reserved" >>,
           r.acc \cup { Sl(c, base, base + 108),
                        Sl(c, base + 108, base + 112),
                        Sl(c, base + 112, base + 116),
                        Sl(c, base + 116, base + 120),
                        Sl(c, base + 120, base + 124) })

inspectInfoheaderV5(c, d, base, n) ==
  v5Rest(c, inspectInfoheaderV4(c, d, base, 108), d, base, n)

\* versionInfo[id].inspectInfoheaderFunc(ctx, slice)
inspectInfoheaderFunc(id, c, d, base, n) ==
  CASE id \in { "os2v1", "winv2" } -> inspectInfoheaderOS2(c, d, base, n)
    [] id = "os2v2" -> inspectInfoheaderOS2V2(c, d, base, n)
    [] id = "winv3" -> inspectInfoheaderV3(c, d, base, n)
    [] id \in { "52", "56", "winv4" } -> inspectInfoheaderV4(c, d, base, n)
    [] id = "winv5" -> inspectInfoheaderV5(c, d, base, n)

\* checkBitCount with the depths 16 and 32 accepted for every version
checkBitCount_any1632(c) ==
  CASE c.bitCount = 0 ->
         /\ c.bmpVerID \in { "winv4", "winv5" }
         /\ c.compressionCode \in { bI_JPEG, bI_PNG }
    [] c.bitCount \in { 1, 4, 8, 24, 16, 32 } -> TRUE
    [] c.bitCount = 2 -> c.bmpVerID = "winv3"
    [] OTHER -> FALSE

\* checkBitCount: TRUE iff it returns no error
checkBitCount(c) ==
  CASE c.bitCount = 0 ->
         /\ c.bmpVerID \in { "winv4", "winv5" }
         /\ c.compressionCode \in { bI_JPEG, bI_PNG }
    [] c.bitCount \in { 1, 4, 8, 24 } -> TRUE
    [] c.bitCount = 2 -> c.bmpVerID = "winv3"
    [] c.bitCount \in { 16, 32 } ->
         c.bmpVerID \in { "winv3", "52", "56", "winv4", "winv5" }
    [] OTHER -> FALSE

\* readInfoheader once the header decoder has returned r
readInfoheaderRest(c, r) ==
  IF r.err # NoErr
  THEN Ret(r.ctx, r.err, << "INFOHEADER" >> \o r.out,
           { Sl(c, c.pos, c.pos + c.infoHeaderSize) } \cup r.acc)
  ELSE IF ~checkBitCount(r.ctx)
  THEN Ret(r.ctx, "Invalid BitCount", << "INFOHEADER" >> \o r.out,
           { Sl(c, c.pos, c.pos + c.infoHeaderSize) } \cup r.acc)
  ELSE Ret([r.ctx EXCEPT
              !.palSizeInBytes = r.ctx.palBytesPerEntry * r.ctx.palNumEntries,
              !.pos = @ + c.infoHeaderSize],
           NoErr, << "INFOHEADER" >> \o r.out,
           { Sl(c, c.pos, c.pos + c.infoHeaderSize) } \cup r.acc)

\* has readInfoheader the bytes of the header it is about to decode?
headerFits(c) == ~(c.fileSize - c.pos < c.infoHeaderSize)

readInfoheader(c, d) ==
  IF c.fileSize - c.pos < 4
  THEN Ret(c, "Unexpected end of file", << >>, {})
  ELSE IF ~headerFits(c)
  THEN Ret(c, "Unexpected end of file", << "INFOHEADER" >>, {})
  ELSE IF c.bmpVerID \notin versionInfo
  THEN Ret(c, "Unknown BMP version", << "INFOHEADER" >>, {})
  ELSE readInfoheaderRest(
         c, inspectInfoheaderFunc(c.bmpVerID, c, d, c.pos, c.infoHeaderSize))

inspectBitfields(c, d, base, n) ==
  Ret(c, NoErr, << "BITFIELDS" >>,
      { Sl(c, base + i * 4, base + i * 4 + 4) :
          i \in { j \in 0..3 : j * 4 < n } })

\* has readBmp the bytes of the bitfields segment?
bitfieldsFit(c) == ~(c.fileSize - c.pos < c.bitfieldsSegmentSize)

\* readBmp: the bitfields segment
readBitfields(c, d) ==
  IF ~c.hasBitfieldsSegment THEN Ret(c, NoErr, << >>, {})
  ELSE IF ~bitfieldsFit(c)
  THEN Ret(c, "Unexpected end of file", << >>, {})
  ELSE Ret([c EXCEPT !.pos = @ + c.bitfieldsSegmentSize], NoErr,
           << "BITFIELDS" >>,
           { Sl(c, c.pos, c.pos + c.bitfieldsSegmentSize) }
             \cup inspectBitfields(c, d, c.pos, c.bitfieldsSegmentSize).acc)

\* inspectColorTable: some os2v2 files have three bytes per entry
os2v2PaletteHack(c) ==
  IF c.bmpVerID = "os2v2"
     /\ c.bfOffBits - (14 + c.infoHeaderSize) = 3 * c.palNumEntries
  THEN [c EXCEPT !.palBytesPerEntry = 3,
                 !.palSizeInBytes = c.palNumEntries * 3]
  ELSE c

\* The entries of the color table are read in index order; of the index
\* expressions of that loop the accesses keep those of the first and of the
\* last entry.  c1 is the context after the os2v2 hack.
colorTableAcc(c1, base, n) ==
  { Ix(base + i * c1.palBytesPerEntry + k, base + n) :
      i \in (IF c1.palNumEntries > 0 THEN { 0, c1.palNumEntries - 1 } ELSE {}),
      k \in 0..(c1.palBytesPerEntry - 1) }

\* the entry a channel order prints: its index, then the bytes at the
\* offsets of red, green and blue, then the fourth byte if there is one
paletteLine(c1, d, at, i, ro, go, bo) ==
  [ i |-> i,
    samples |-> << ByteAt(d, at + ro), ByteAt(d, at + go), ByteAt(d, at + bo) >>
                  \o (IF c1.palBytesPerEntry = 4
                      THEN << ByteAt(d, at + 3) >> ELSE << >>) ]

\* paletteEntry printing the three bytes in the order they are stored
paletteEntry_stored(c1, d, base, i) ==
  paletteLine(c1, d, base + i * c1.palBytesPerEntry, i, 0, 1, 2)

\* inspectColorTable: b, g, r (and x) are read from an entry in this order,
\* and printed as r, g, b (and x)
paletteEntry(c1, d, base, i) ==
  paletteLine(c1, d, base + i * c1.palBytesPerEntry, i, 2, 1, 0)

\* the lines of the loop of inspectColorTable, i = 0 .. palNumEntries - 1
colorTableEntries(c1, d, base) ==
  [ k \in 1..c1.palNumEntries |-> paletteEntry(c1, d, base, k - 1) ]

inspectColorTable(c, d, base, n) ==
  Ret(os2v2PaletteHack(c), NoErr,
      << "Color table" >>
        \o (IF os2v2PaletteHack(c) # c
            THEN << "Warning: Bitmap overlaps color table" >> ELSE << >>),
      colorTableAcc(os2v2PaletteHack(c), base, n))

\* colorTableFits without the check
colorTableFits_unchecked(c) == TRUE

\* has readBmp the bytes of the color table?
colorTableFits(c) == ~(c.fileSize - c.pos < c.palSizeInBytes)

readColorTableRest(c, r) ==
  Ret([r.ctx EXCEPT !.pos = @ + r.ctx.palSizeInBytes], NoErr, r.out,
      { Sl(c, c.pos, c.pos + c.palSizeInBytes) } \cup r.acc)

\* readBmp: the color table
readColorTable(c, d) ==
  IF ~(c.palSizeInBytes > 0) THEN Ret(c, NoErr, << >>, {})
  ELSE IF ~colorTableFits(c)
  THEN Ret(c, "Unexpected end of file", << >>, {})
  ELSE readColorTableRest(c, inspectColorTable(c, d, c.pos, c.palSizeInBytes))

\* offBitsSensible refusing a pointer at the cursor
offBitsSensible_strict(c) ==
  ~(c.bfOffBits <= c.pos \/ c.bfOffBits > c.fileSize)

\* is the bfOffBits pointer sensible?
offBitsSensible(c) == ~(c.bfOffBits < c.pos \/ c.bfOffBits > c.fileSize)

\* readBmp: the bfOffBits pointer and the unused bytes before it
checkOffBits(c, d) ==
  IF ~offBitsSensible(c) THEN Ret(c, "Bad bfOffBits value", << >>, {})
  ELSE Ret([c EXCEPT !.pos = @ + (c.bfOffBits - c.pos)], NoErr,
           IF c.bfOffBits - c.pos > 0 THEN << "unused bytes" >> ELSE << >>,
           {})

\* rowStrideOf rounded up to whole bytes only
rowStrideOf_bytes(imgWidth, bitCount) == GoDiv((imgWidth * bitCount) + 7, 8)

\* ctx.rowStride as inspectBits computes it
rowStrideOf(imgWidth, bitCount) == GoDiv((imgWidth * bitCount) + 31, 32) * 4

\* bitsSizes, the actual size of uncompressed bits being no more than the
\* bytes the file has left
bitsSizes_available(c) ==
  [c EXCEPT !.rowStride = rowStrideOf(c.imgWidth, c.bitCount),
            !.calculatedSize = rowStrideOf(c.imgWidth, c.bitCount) * c.imgHeight,
            !.actualBitsSize =
               IF c.isCompressed THEN @
               ELSE Min(rowStrideOf(c.imgWidth, c.bitCount) * c.imgHeight,
                        c.fileSize - c.pos)]

\* inspectBits: the sizes
bitsSizes(c) ==
  [c EXCEPT !.rowStride = rowStrideOf(c.imgWidth, c.bitCount),
            !.calculatedSize = rowStrideOf(c.imgWidth, c.bitCount) * c.imgHeight,
            !.actualBitsSize =
               IF c.isCompressed THEN @
               ELSE rowStrideOf(c.imgWidth, c.bitCount) * c.imgHeight]

\* bitsTooShort never finding the bits too short
bitsTooShort_never(c, n) == FALSE

\* inspectBits: the uncompressed bits end before the calculated size
bitsTooShort(c, n) ==
  ~(c.rowStride < 1 \/ c.rowStride > 1000000) /\ n < c.calculatedSize

\* inspectBits: the checks of an uncompressed image, the sizes being set
bitsChecked(c, n) ==
  IF ~c.isCompressed
     /\ (c.rowStride < 1 \/ c.rowStride > 1000000 \/ bitsTooShort(c, n))
  THEN [c EXCEPT !.printPixels = FALSE]
  ELSE c

\* inspectBits up to the decision to print the pixels, for
\* d = ctx.data[base : base+n]
inspectBits(c, d, base, n) ==
  Ret(bitsChecked(bitsSizes(c), n), NoErr,
      << "Bitmap bits" >>
        \o (IF ~c.isCompressed /\ bitsTooShort(bitsSizes(c), n)
            THEN << "Warning: Unexpected end of file" >> ELSE << >>),
      {})

\* the branch of inspectBits' switch on ctx.compressionType
pixelDecoder(c) ==
  IF ~c.printPixels THEN "off"
  ELSE IF c.compressionType = "none" THEN "rows"
  ELSE IF c.compressionType \in { "rle8", "rle4", "rle24" } THEN "rle"
  ELSE "unknown"

readBitsRest(c, r) ==
  Ret(r.ctx, NoErr,
      r.out \o (IF pixelDecoder(r.ctx) = "unknown"
                THEN << "(Don't know how to decode this type of bitmap.)" >>
                ELSE << >>),
      { Sl(c, c.pos, c.fileSize) } \cup r.acc)

\* readBmp: the rest of the file is assumed to contain the bitmap bits
readBits(c, d) ==
  readBitsRest(c, inspectBits(c, d, c.pos, c.fileSize - c.pos))

(***************************************************************************)
(* printUncompressedPixels.  A row is d[offset : offset+rowStride] of      *)
(* d = ctx.data[ctx.pos : ctx.fileSize]; offsets of the model are          *)
(* absolute.                                                               *)
(***************************************************************************)
\* the depths that have a "print row" function
printRowFuncs == { 1, 2, 4, 8, 16, 24, 32 }

\* the value printRow_<bc> prints for pixel i of the row at offset o
pixelAt(d, bc, o, i) ==
  CASE bc = 1 -> (ByteAt(d, o + i \div 8) \div Pow2(7 - (i % 8))) % 2
    [] bc = 2 -> (ByteAt(d, o + i \div 4) \div Pow2(2 * (3 - (i % 4)))) % 4
    [] bc = 4 -> IF i % 2 = 0 THEN ByteAt(d, o + i \div 2) \div 16
                 ELSE ByteAt(d, o + i \div 2) % 16
    [] bc = 8 -> ByteAt(d, o + i)
    [] bc = 16 -> getWORD(d, o + i * 2)
    [] bc = 24 -> 65536 * ByteAt(d, o + i * 3 + 2)
                    + 256 * ByteAt(d, o + i * 3 + 1) + ByteAt(d, o + i * 3)
    [] bc = 32 -> getDWORD(d, o + i * 4)

\* the index and slice expressions of printRow_<bitCount> for pixel i of
\* the row at offset o
pixelAcc(c, o, i) ==
  CASE c.bitCount = 1 -> { Ix(o + i \div 8, o + c.rowStride) }
    [] c.bitCount = 2 -> { Ix(o + i \div 4, o + c.rowStride) }
    [] c.bitCount = 4 -> { Ix(o + i \div 2, o + c.rowStride) }
    [] c.bitCount = 8 -> { Ix(o + i, o + c.rowStride) }
    [] c.bitCount = 16 -> { Sl(c, o + i * 2, o + i * 2 + 2) }
    [] c.bitCount = 24 -> { Ix(o + i * 3 + k, o + c.rowStride) : k \in 0..2 }
    [] c.bitCount = 32 -> { Sl(c, o + i * 4, o + i * 4 + 4) }

\* badColor, recording every bad index
badColor_last(c, n, xpos) ==
  [c EXCEPT !.badColorIndex = n, !.badColor_X = xpos, !.badColorFlag = TRUE]

\* Record information about a bad palette index.
badColor(c, n, xpos) ==
  IF ~c.badColorFlag
  THEN [c EXCEPT !.badColorIndex = n, !.badColor_X = xpos,
                 !.badColorFlag = TRUE]
  ELSE c

\* printRow_<bitCount> from pixel i on: the palette indices (depths up to
\* 8) are checked against the number of palette entries
RECURSIVE printRow(_, _, _, _)
printRow(c, d, o, i) ==
  IF ~(i < c.imgWidth) THEN c
  ELSE printRow(IF c.bitCount <= 8
                   /\ pixelAt(d, c.bitCount, o, i) >= c.palNumEntries
                THEN badColor(c, pixelAt(d, c.bitCount, o, i), i) ELSE c,
                d, o, i + 1)

rowOffset(c, p) == c.pos + p * c.rowStride
\* rowLogicalOf labelling every row with its physical index
rowLogicalOf_physical(c, p) == p

\* printUncompressedPixels: the label of the row stored at physical index p
rowLogicalOf(c, p) == IF c.topDown THEN p ELSE c.imgHeight - 1 - p

\* the accesses of one iteration of the loop over the rows
rowAcc(c, p) ==
  { Sl(c, rowOffset(c, p), rowOffset(c, p) + c.rowStride) }
    \cup UNION { pixelAcc(c, rowOffset(c, p), i) : i \in 0..(c.imgWidth - 1) }

\* the pixels one iteration prints
rowPixels(c, d, p) ==
  [ k \in 1..c.imgWidth |->
      [ x |-> k - 1, y |-> rowLogicalOf(c, p),
        n |-> pixelAt(d, c.bitCount, rowOffset(c, p), k - 1), len |-> 1 ] ]

\* at the end of the row, any pending warning is displayed
rowEnd(c) ==
  IF c.badColorFlag /\ ~c.badColorWarned
  THEN Ret([c EXCEPT !.badColorWarned = TRUE], NoErr,
           << "Warning: Bad palette index" >>, {})
  ELSE Ret(c, NoErr, << >>, {})

\* one iteration of the loop of printUncompressedPixels
printUncompressedRow(c, d, p) ==
  [ rowEnd(printRow(c, d, rowOffset(c, p), 0)) EXCEPT !.acc = rowAcc(c, p) ]

(***************************************************************************)
(* printRLECompressedPixels.  The state of the loop is the context, the    *)
(* rlectx and the locals; an iteration also yields the lines and pixels it *)
(* prints and the accesses it makes.                                       *)
(***************************************************************************)
\* as new(rlectx_type) allocates it
rlectx_type ==
  [ bytesInThisRow |-> 0, rowHeaderPrinted |-> FALSE, xpos |-> 0, ypos |-> 0,
    badPosFlag |-> FALSE, badPosWarned |-> FALSE, badPos_X |-> 0,
    badPos_Y |-> 0 ]

\* the locals of printRLECompressedPixels before the loop; done: the loop
\* has been left
rleLocals ==
  [ pos |-> 0, unc_pixels_left |-> 0, deltaFlag |-> FALSE,
    rle24pendingFlag |-> FALSE, clr24bytes |-> <<0, 0, 0, 0>>,
    clr24bytes_used |-> 0, done |-> FALSE ]

RLEState(c, x, l) ==
  [ c |-> c, x |-> x, l |-> l, o |-> << >>, px |-> << >>, acc |-> {} ]

\* does printRLECompressedPixels decode this depth and compression?
rleDecodable(c) ==
  /\ c.bitCount \in { 4, 8, 24 }
  /\ c.bitCount = 4 => c.compressionCode = bI_RLE4
  /\ c.bitCount = 8 => c.compressionCode = bI_RLE8
  /\ c.bitCount = 24 => c.compressionCode = bI_RLE24

endRLERowHeader(s) ==
  IF s.x.rowHeaderPrinted
  THEN [s EXCEPT !.x.bytesInThisRow = 0, !.x.rowHeaderPrinted = FALSE]
  ELSE s
endRLERowPos(s) ==
  IF s.x.badPosFlag /\ ~s.x.badPosWarned
  THEN [s EXCEPT !.x.badPosWarned = TRUE,
                 !.o = Append(@, "Warning: Out of bounds pixel")]
  ELSE s
endRLERowColor(s) ==
  IF s.c.badColorFlag /\ ~s.c.badColorWarned
  THEN [s EXCEPT !.c.badColorWarned = TRUE,
                 !.o = Append(@, "Warning: Bad palette index")]
  ELSE s

\* Do some things that need to be done at the end of every row.
endRLERow(s) == endRLERowColor(endRLERowPos(endRLERowHeader(s)))

checkRLEPos(s) ==
  IF (s.x.xpos >= s.c.imgWidth \/ s.x.ypos < 0) /\ ~s.x.badPosFlag
  THEN [s EXCEPT !.x.badPosFlag = TRUE, !.x.badPos_X = s.x.xpos,
                 !.x.badPos_Y = s.x.ypos]
  ELSE s
checkRLEColor(s, n) ==
  IF s.c.compressionCode # bI_RLE24 /\ n >= s.c.palNumEntries
     /\ ~s.c.badColorFlag
  THEN [s EXCEPT !.c.badColorIndex = n, !.c.badColor_X = s.x.xpos,
                 !.c.badColor_Y = s.x.ypos, !.c.badColorFlag = TRUE]
  ELSE s
checkRLEPosAndColor(s, n) == checkRLEColor(checkRLEPos(s), n)

\* a printed pixel value, or run of len pixels, at the current position
rlePrint(s, n, len) ==
  [s EXCEPT !.px = Append(@, [ x |-> s.x.xpos, y |-> s.x.ypos, n |-> n,
                               len |-> len ])]

\* printRLE4Pixel, printRLE8Pixel
printRLEPixel(s, n) == checkRLEPosAndColor(rlePrint(s, n, 1), n)

\* printRLE24Pixel(ctx, rlectx, clr24bytes[lo : lo+3])
printRLE24Pixel(s, lo, len) ==
  checkRLEPosAndColor(
    [ rlePrint(s, 65536 * s.l.clr24bytes[lo + 3] + 256 * s.l.clr24bytes[lo + 2]
                    + s.l.clr24bytes[lo + 1], len)
        EXCEPT !.acc = @ \cup { <<lo, lo + 3, 4>> } ], 0)

\* a pixel of an uncompressed run, if one is left
rleUncPixel(s, n) ==
  IF s.l.unc_pixels_left > 0
  THEN [ printRLEPixel(s, n) EXCEPT !.x.xpos = @ + 1,
                                   !.l.unc_pixels_left = @ - 1 ]
  ELSE s

\* the two bytes store up to 4 uncompressed pixels
rleLiteral4(s, b1, b2) ==
  rleUncPixel(rleUncPixel(rleUncPixel(rleUncPixel(s, b1 \div 16), b1 % 16),
                          b2 \div 16), b2 % 16)
rleLiteral8(s, b1, b2) == rleUncPixel(rleUncPixel(s, b1), b2)

\* append the 2 bytes to the color buffer
clr24Append(s, b1, b2) ==
  [s EXCEPT !.l.clr24bytes =
               [ i \in 1..4 |->
                   IF i = s.l.clr24bytes_used + 1 THEN b1
                   ELSE IF i = s.l.clr24bytes_used + 2 THEN b2
                   ELSE s.l.clr24bytes[i] ],
            !.l.clr24bytes_used = @ + 2,
            !.acc = @ \cup { Ix(s.l.clr24bytes_used, 4),
                             Ix(s.l.clr24bytes_used + 1, 4) }]
\* clr24Shift leaving the leftover byte where it is
clr24Shift_unmoved(s) == [s EXCEPT !.l.clr24bytes_used = @ - 3]

\* a leftover byte moves to the beginning of the buffer
clr24Shift(s) ==
  [s EXCEPT !.l.clr24bytes =
               IF s.l.clr24bytes_used = 4
               THEN [ i \in 1..4 |-> s.l.clr24bytes[IF i = 1 THEN 4 ELSE i] ]
               ELSE @,
            !.l.clr24bytes_used = @ - 3]
clr24Pixel(s) ==
  IF s.l.clr24bytes_used >= 3
  THEN clr24Shift([ printRLE24Pixel(s, 0, 1)
                      EXCEPT !.x.xpos = @ + 1, !.l.unc_pixels_left = @ - 1 ])
  ELSE s
\* clr24Discard, keeping what is left in the buffer
clr24Discard_kept(s) == s

\* any padding byte is discarded
clr24Discard(s) ==
  IF s.l.unc_pixels_left < 1 THEN [s EXCEPT !.l.clr24bytes_used = 0] ELSE s
rleLiteral24(s, b1, b2) == clr24Discard(clr24Pixel(clr24Append(s, b1, b2)))

\* a pair of an uncompressed run
rleLiteral(s, b1, b2) ==
  IF s.c.compressionCode = bI_RLE24 THEN rleLiteral24(s, b1, b2)
  ELSE IF s.c.compressionCode = bI_RLE4 THEN rleLiteral4(s, b1, b2)
  ELSE rleLiteral8(s, b1, b2)

\* the pair after a DELTA code
rleDeltaMove(s, b1, b2) ==
  [s EXCEPT !.x.xpos = @ + b1, !.x.ypos = @ - b2, !.l.deltaFlag = FALSE]
\* rleDelta, closing the row whatever dy is
rleDelta_closing(s, b1, b2) == endRLERow(rleDeltaMove(s, b1, b2))

rleDelta(s, b1, b2) ==
  IF b2 > 0 THEN endRLERow(rleDeltaMove(s, b1, b2))
  ELSE rleDeltaMove(s, b1, b2)

\* the last 2 bytes of a 4-byte RLE24 code
rle24Fill(s, b1, b2) ==
  [s EXCEPT !.l.clr24bytes = << @[1], @[2], b1, b2 >>,
            !.acc = @ \cup { Ix(2, 4), Ix(3, 4) }]
rle24Last(s) ==
  checkRLEPosAndColor([s EXCEPT !.x.xpos = @ + s.l.clr24bytes[1] - 1], 0)
rle24Reset(s) ==
  [s EXCEPT !.x.xpos = @ + 1, !.l.rle24pendingFlag = FALSE,
            !.l.clr24bytes_used = 0]
rle24Complete(s, b1, b2) ==
  rle24Reset(rle24Last(printRLE24Pixel(rle24Fill(s, b1, b2), 1,
                                       s.l.clr24bytes[1])))

\* rleControl, the end of line keeping the column
rleControl_column(s, b2) ==
  CASE b2 = 0 -> [ endRLERow([s EXCEPT !.o = Append(@, "EOL")])
                     EXCEPT !.x.ypos = @ - 1 ]
    [] b2 = 1 -> [ endRLERow([s EXCEPT !.o = Append(@, "EOBMP")])
                     EXCEPT !.l.done = TRUE ]
    [] b2 = 2 -> [s EXCEPT !.o = Append(@, "DELTA"), !.l.deltaFlag = TRUE]
    [] OTHER -> [s EXCEPT !.l.unc_pixels_left = b2]

\* a control code: b1 = 0
rleControl(s, b2) ==
  CASE b2 = 0 -> [ endRLERow([s EXCEPT !.o = Append(@, "EOL")])
                     EXCEPT !.x.ypos = @ - 1, !.x.xpos = 0 ]
    [] b2 = 1 -> [ endRLERow([s EXCEPT !.o = Append(@, "EOBMP")])
                     EXCEPT !.l.done = TRUE ]
    [] b2 = 2 -> [s EXCEPT !.o = Append(@, "DELTA"), !.l.deltaFlag = TRUE]
    [] OTHER -> [s EXCEPT !.l.unc_pixels_left = b2]

rleStep(s, k) == [s EXCEPT !.x.xpos = @ + k]

\* compressed pixels: b1 > 0
rleRun24(s, b1, b2) ==
  [ checkRLEPosAndColor(s, 0)
      EXCEPT !.l.clr24bytes = << b1, b2, @[3], @[4] >>,
             !.l.clr24bytes_used = 2, !.l.rle24pendingFlag = TRUE,
             !.acc = @ \cup { Ix(0, 4), Ix(1, 4) } ]
\* rleRun4Second checking the second pixel of every run
rleRun4Second_always(s, b1, b2) ==
  rleStep(checkRLEPosAndColor(s, b2 % 16), 1)

rleRun4Second(s, b1, b2) ==
  IF b1 > 1 THEN rleStep(checkRLEPosAndColor(s, b2 % 16), 1) ELSE s
rleRun4Last(s, b1) ==
  IF b1 > 2
  THEN rleStep(checkRLEPosAndColor(rleStep(s, b1 - 3), 0), 1) ELSE s
rleRun4(s, b1, b2) ==
  rleRun4Last(
    rleRun4Second(
      rleStep(checkRLEPosAndColor(rlePrint(s, b2, b1), b2 \div 16), 1),
      b1, b2),
    b1)
\* rleRun8 checking the first pixel only
rleRun8_first(s, b1, b2) ==
  rleStep(checkRLEPosAndColor(rlePrint(s, b2, b1), b2), b1)

rleRun8(s, b1, b2) ==
  rleStep(
    checkRLEPosAndColor(
      rleStep(checkRLEPosAndColor(rlePrint(s, b2, b1), b2), b1 - 1), b2),
    1)
rleRun(s, b1, b2) ==
  IF s.c.compressionCode = bI_RLE24 THEN rleRun24(s, b1, b2)
  ELSE IF s.c.compressionCode = bI_RLE4 THEN rleRun4(s, b1, b2)
  ELSE rleRun8(s, b1, b2)

\* rleClassify, taking 00 00, 00 01 and 00 02 as control codes whatever is
\* pending
rleClassify_control(s, b1, b2) ==
  IF b1 = 0 /\ b2 <= 2 THEN rleControl(s, b2)
  ELSE IF s.l.unc_pixels_left > 0 THEN rleLiteral(s, b1, b2)
  ELSE IF s.l.deltaFlag THEN rleDelta(s, b1, b2)
  ELSE IF s.l.rle24pendingFlag THEN rle24Complete(s, b1, b2)
  ELSE IF b1 = 0 THEN rleControl(s, b2)
  ELSE rleRun(s, b1, b2)

\* what a pair of bytes is depends first on what is pending
rleClassify(s, b1, b2) ==
  IF s.l.unc_pixels_left > 0 THEN rleLiteral(s, b1, b2)
  ELSE IF s.l.deltaFlag THEN rleDelta(s, b1, b2)
  ELSE IF s.l.rle24pendingFlag THEN rle24Complete(s, b1, b2)
  ELSE IF b1 = 0 THEN rleControl(s, b2)
  ELSE rleRun(s, b1, b2)

\* the row header, if it is not printed yet
rleRowHeader(s) ==
  IF ~s.x.rowHeaderPrinted
  THEN [s EXCEPT !.x.rowHeaderPrinted = TRUE,
                 !.o = Append(@, IF s.x.ypos >= 0 THEN "row" ELSE "row n/a")]
  ELSE s

\* rleRead, a byte at a time
rleRead_one(s) ==
  [s EXCEPT !.l.pos = @ + 1, !.x.bytesInThisRow = @ + 2,
            !.acc = @ \cup { Ix(s.c.pos + s.l.pos, s.c.fileSize),
                             Ix(s.c.pos + s.l.pos + 1, s.c.fileSize) }]

\* the bytes are read 2 at a time: d[pos], d[pos+1]
rleRead(s) ==
  [s EXCEPT !.l.pos = @ + 2, !.x.bytesInThisRow = @ + 2,
            !.acc = @ \cup { Ix(s.c.pos + s.l.pos, s.c.fileSize),
                             Ix(s.c.pos + s.l.pos + 1, s.c.fileSize) }]

\* rleAtEnd, ending the loop only when no byte is left
rleAtEnd_noByte(s) == s.l.pos >= s.c.fileSize - s.c.pos

\* the compressed data ended without an EOBMP code: pos+1 >= len(d)
rleAtEnd(s) == s.l.pos + 1 >= s.c.fileSize - s.c.pos

\* rleFinish, taking the whole of the data as consumed
rleFinish_whole(s) ==
  [s EXCEPT !.c.actualBitsSize = s.c.fileSize - s.c.pos, !.l.done = TRUE,
            !.o = Append(@, "(Compression ratio)")]

\* after the loop
rleFinish(s) ==
  [s EXCEPT !.c.actualBitsSize = s.l.pos, !.l.done = TRUE,
            !.o = Append(@, "(Compression ratio)")]

\* one iteration of the loop that reads a pair, and what follows the loop
\* if the iteration leaves it
rleIterationEnd(s) == IF s.l.done THEN rleFinish(s) ELSE s
rleIteration(s, d) ==
  rleIterationEnd(
    rleClassify(rleRead(rleRowHeader(s)),
                ByteAt(d, s.c.pos + s.l.pos),
                ByteAt(d, s.c.pos + s.l.pos + 1)))

\* the iteration that finds the data ended, and what follows the loop
rleDataEnded(s) == rleFinish(endRLERow(s))

\* the pixel printer that inspectBits calls, if any
printerOf(c) ==
  CASE pixelDecoder(c) = "rows" ->
         IF c.bitCount \in printRowFuncs THEN "rows" ELSE "afterbits"
    [] pixelDecoder(c) = "rle" ->
         IF rleDecodable(c) THEN "rle" ELSE "afterbits"
    [] OTHER -> "afterbits"

\* profileAt without the check of the size of the profile
profileAt_unchecked(c, o) ==
  Ret([c EXCEPT !.pos = @ + c.profileSize], NoErr,
      o \o << IF c.profileIsLinked THEN "Linked color profile"
              ELSE "Color profile" >>,
      { Sl(c, c.pos, c.pos + c.profileSize) })

\* readBmp: the color profile, c being the context once the cursor is at
\* the profile
profileAt(c, o) ==
  IF c.pos + c.profileSize > c.fileSize
  THEN Ret(c, "Invalid color profile size", o, {})
  ELSE Ret([c EXCEPT !.pos = @ + c.profileSize], NoErr,
           o \o << IF c.profileIsLinked THEN "Linked color profile"
                   ELSE "Color profile" >>,
           { Sl(c, c.pos, c.pos + c.profileSize) })

\* readBmp: the color profile, after the cursor has passed the bitmap bits
readProfile(c, d) ==
  IF ~c.hasProfile THEN Ret(c, NoErr, << >>, {})
  ELSE IF c.pos < c.profileOffset
  THEN profileAt([c EXCEPT !.pos = c.profileOffset], << "unused bytes" >>)
  ELSE IF c.pos > c.profileOffset
  THEN Ret(c, "Invalid color profile location", << >>, {})
  ELSE profileAt(c, << >>)

(***************************************************************************)
(* readBmp, stage by stage.  A stage maps the context to a Ret.            *)
(***************************************************************************)
readFileheaderRest(c, r) ==
  IF r.err # NoErr
  THEN Ret(r.ctx, r.err, r.out,
           { Sl(c, c.pos + 14, c.pos + 18), Sl(c, c.pos, c.pos + 14) }
             \cup r.acc)
  ELSE Ret([r.ctx EXCEPT !.pos = @ + 14], NoErr, r.out,
           { Sl(c, c.pos + 14, c.pos + 18), Sl(c, c.pos, c.pos + 14) }
             \cup r.acc)

\* is the file large enough to be a BMP?
fileFits(c) == ~(c.fileSize - c.pos < 18)

\* readBmp up to the file header: the size check, the header-size field,
\* inspectFileheader
readFileheader(c, d) ==
  IF ~fileFits(c)
  THEN Ret(c, "File is too small to be a BMP", << >>, {})
  ELSE readFileheaderRest(
         c, inspectFileheader(
              [c EXCEPT !.infoHeaderSize = getDWORD(d, c.pos + 14)],
              d, c.pos, 14))

(***************************************************************************)
(* The state machine.                                                      *)
(***************************************************************************)
Init ==
  /\ data \in InputFiles
  /\ ctx = ctx_type
  /\ pc = "main2"
  /\ err = NoErr
  /\ out = << >>
  /\ palette = << >>
  /\ rowPhysical = 0
  /\ rlectx = rlectx_type
  /\ rle = rleLocals
  /\ pixels = << >>

\* main2 up to the call of readBmp: the defaults, the file read into memory
Main2Start ==
  /\ UNCHANGED palette
  /\ pc = "main2"
  /\ ctx' = [ctx EXCEPT !.printPixels = TRUE, !.compressionType = "none",
                        !.fileSize = data.size]
  /\ pc' = "fileheader"
  /\ UNCHANGED <<data, err, out, decoder>>

\* one stage of readBmp: an access out of range ends the run in a panic, an
\* error makes readBmp return it, otherwise the next stage follows
Stage(r, next) ==
  /\ UNCHANGED data
  /\ IF ~AllInRange(r.acc)
     THEN pc' = "panic" /\ UNCHANGED <<ctx, err, out>>
     ELSE /\ ctx' = r.ctx
          /\ out' = out \o r.out
          /\ err' = r.err
          /\ pc' = IF r.err # NoErr THEN "ret" ELSE next

ReadFileheader ==
  /\ UNCHANGED palette
  /\ pc = "fileheader"
  /\ Stage(readFileheader(ctx, data), "infoheader")
  /\ UNCHANGED decoder

ReadInfoheader ==
  /\ UNCHANGED palette
  /\ pc = "infoheader"
  /\ Stage(readInfoheader(ctx, data), "bitfields")
  /\ UNCHANGED decoder

ReadBitfields ==
  /\ UNCHANGED palette
  /\ pc = "bitfields"
  /\ Stage(readBitfields(ctx, data), "colortable")
  /\ UNCHANGED decoder

ReadColorTable ==
  /\ pc = "colortable"
  /\ Stage(readColorTable(ctx, data), "offbits")
  /\ palette' = IF pc' = "offbits" /\ ctx.palSizeInBytes > 0
                THEN colorTableEntries(os2v2PaletteHack(ctx), data, ctx.pos)
                ELSE palette
  /\ UNCHANGED decoder

CheckOffBits ==
  /\ UNCHANGED palette
  /\ pc = "offbits"
  /\ Stage(checkOffBits(ctx, data), "bits")
  /\ UNCHANGED decoder

\* inspectBits up to the first iteration of the pixel printer it calls
ReadBits ==
  /\ UNCHANGED palette
  /\ pc = "bits"
  /\ Stage(readBits(ctx, data), printerOf(readBits(ctx, data).ctx))
  /\ rowPhysical' = 0
  /\ rlectx' = [rlectx_type EXCEPT !.xpos = 0, !.ypos = ctx.imgHeight - 1]
  /\ rle' = rleLocals
  /\ UNCHANGED pixels

\* printUncompressedPixels: one row
PrintRow ==
  /\ UNCHANGED palette
  /\ pc = "rows"
  /\ rowPhysical < ctx.imgHeight
  /\ Stage(printUncompressedRow(ctx, data, rowPhysical), "rows")
  /\ IF pc' = "panic" THEN UNCHANGED <<rowPhysical, pixels>>
     ELSE /\ rowPhysical' = rowPhysical + 1
          /\ pixels' = pixels \o rowPixels(ctx, data, rowPhysical)
  /\ UNCHANGED <<rlectx, rle>>

\* printUncompressedPixels returns after the last row
RowsDone ==
  /\ UNCHANGED palette
  /\ pc = "rows"
  /\ ~(rowPhysical < ctx.imgHeight)
  /\ pc' = "afterbits"
  /\ UNCHANGED <<data, ctx, err, out, decoder>>

\* one iteration of the loop of printRLECompressedPixels: an access out of
\* range ends the run in a panic; when the loop is left the function
\* returns
RLEStage(s) ==
  /\ UNCHANGED <<data, err, palette, rowPhysical>>
  /\ IF ~AllInRange(s.acc)
     THEN pc' = "panic" /\ UNCHANGED <<ctx, out, rlectx, rle, pixels>>
     ELSE /\ ctx' = s.c
          /\ rlectx' = s.x
          /\ rle' = s.l
          /\ out' = out \o s.o
          /\ pixels' = pixels \o s.px
          /\ pc' = IF s.l.done THEN "afterbits" ELSE "rle"

\* printRLECompressedPixels: one pair of bytes
RLEPair ==
  /\ pc = "rle"
  /\ ~rleAtEnd(RLEState(ctx, rlectx, rle))
  /\ RLEStage(rleIteration(RLEState(ctx, rlectx, rle), data))

\* printRLECompressedPixels: no pair is left
RLEDataEnded ==
  /\ pc = "rle"
  /\ rleAtEnd(RLEState(ctx, rlectx, rle))
  /\ RLEStage(rleDataEnded(RLEState(ctx, rlectx, rle)))

\* readBmp after inspectBits: nothing more if the size of the bits is
\* unknown, else the cursor passes them
AfterBits ==
  /\ UNCHANGED palette
  /\ pc = "afterbits"
  /\ IF ctx.actualBitsSize < 1
     THEN pc' = "ret" /\ UNCHANGED ctx
     ELSE pc' = "profile" /\ ctx' = [ctx EXCEPT !.pos = @ + ctx.actualBitsSize]
  /\ UNCHANGED <<data, err, out, decoder>>

ReadProfile ==
  /\ UNCHANGED palette
  /\ pc = "profile"
  /\ Stage(readProfile(ctx, data), "tail")
  /\ UNCHANGED decoder

\* readBmp: the unused bytes at the end of the file
ReadTail ==
  /\ UNCHANGED palette
  /\ pc = "tail"
  /\ out' = IF ctx.pos < ctx.fileSize THEN Append(out, "unused bytes") ELSE out
  /\ pc' = "ret"
  /\ UNCHANGED <<data, ctx, err, decoder>>

\* main2 after readBmp has returned
Main2End ==
  /\ UNCHANGED palette
  /\ pc = "ret"
  /\ out' = Append(out, "End of file")
  /\ pc' = "exit"
  /\ UNCHANGED <<data, ctx, err, decoder>>

\* mainReport saying nothing
mainReport_silent(o, e) == o

\* main: the error main2 returned, if any, is printed
mainReport(o, e) == IF e # NoErr THEN Append(o, "Error: " \o e) ELSE o

\* main after main2 has returned
Main ==
  /\ pc = "exit"
  /\ out' = mainReport(out, err)
  /\ pc' = "done"
  /\ UNCHANGED <<data, ctx, err, palette, decoder>>

Next ==
  \/ Main2Start
  \/ ReadFileheader
  \/ ReadInfoheader
  \/ ReadBitfields
  \/ ReadColorTable
  \/ CheckOffBits
  \/ ReadBits
  \/ PrintRow
  \/ RowsDone
  \/ RLEPair
  \/ RLEDataEnded
  \/ AfterBits
  \/ ReadProfile
  \/ ReadTail
  \/ Main2End
  \/ Main

Spec == Init /\ [][Next]_vars

\* The program is sequential: a step that can be taken is taken.  This is
\* weak fairness of Next, with "Next is enabled" written as the state
\* predicate it amounts to: every stage but the last has a step.
FairSpec ==
  Spec /\ ([]<>(pc \in { "done", "panic" }) \/ []<><<Next>>_vars)

(***************************************************************************)
(* The fields of the file as its bytes give them, and the files that       *)
(* differ from the input in a few bytes or in length.                      *)
(***************************************************************************)
RawFSize == getDWORD(data, 2)
RawInfoHeaderSize == getDWORD(data, 14)
RawBitCount == IF data.size >= 30 THEN getWORD(data, 28) ELSE 0
RawCompression == IF data.size >= 34 THEN getDWORD(data, 30) ELSE 0
\* the ClrUsed field of a header of the version 3 layout
RawClrUsed ==
  IF ctx.bmpVerID = "os2v2" /\ ctx.infoHeaderSize < 36 THEN 0
  ELSE getDWORD(data, 14 + 32)

Printed(line) == \E i \in DOMAIN out : out[i] = line

Overwrite(bs, off, patch) ==
  [i \in 1..Len(bs) |->
     IF i > off /\ i <= off + Len(patch) THEN patch[i - off] ELSE bs[i]]
Resize(d, s) ==
  [d EXCEPT !.size = s, !.bytes = SubSeq(d.bytes, 1, Min(s, Len(d.bytes)))]
AltFiles(d) ==
  { Resize([d EXCEPT !.bytes = Overwrite(Overwrite(d.bytes, 28, p1), 34, p2)],
           z) :
      p1 \in { << >>, <<1, 0, 3, 0, 0, 0>>, <<24, 0, 4, 0, 0, 0>>,
               <<8, 0, 0, 0, 0, 0>> },
      p2 \in { << >>, <<7, 7>> },
      z \in { d.size, d.size + 1, 18, 30, 34, 54 } }
SamePrefix(a, d, k) == \A i \in 0..(k - 1) : ByteAt(a, i) = ByteAt(d, i)
\* the variant detectVersion assigns to the file a, from a fresh context
VersionOf(a) == detectVersion([ctx_type EXCEPT !.fileSize = a.size], a)

\* the layouts
V3Layout == ctx.bmpVerID \in { "os2v2", "winv3", "52", "56", "winv4", "winv5" }

\* the errors readBmp returns
FatalErrors ==
  { "Not a BMP file", "File type not supported",
    "Unreasonable color table size", "Invalid BitCount",
    "Unexpected end of file", "Unknown BMP version",
    "Unsupported BMP version", "File is too small to be a BMP",
    "Bad bfOffBits value", "Invalid color profile location",
    "Invalid color profile size" }

(***************************************************************************)
(* C1.  For every input file, every slice and index expression of the      *)
(* file-header, version-detection, info-header, bitfields, palette,        *)
(* pixel-row, RLE and profile stage is in range of the file buffer (of the *)
(* 4-byte color buffer, for the pending RLE24 bytes): no run panics with   *)
(* an access out of range, the pair of bytes an RLE iteration reads and    *)
(* the row a row iteration reads lie inside the file, and a run that has   *)
(* ended has ended in success or with one of the fatal errors.             *)
(***************************************************************************)
C1_InBounds ==
  /\ pc # "panic"
  /\ (pc = "rle" /\ ~rleAtEnd(RLEState(ctx, rlectx, rle))) =>
       (0 <= ctx.pos + rle.pos /\ ctx.pos + rle.pos + 1 < data.size)
  /\ (pc = "rows" /\ rowPhysical < ctx.imgHeight) =>
       (0 <= rowOffset(ctx, rowPhysical)
          /\ rowOffset(ctx, rowPhysical) + ctx.rowStride <= data.size)
  /\ pc = "exit" => err \in FatalErrors \cup { NoErr }

\* a run has ended without error on an RLE24 stream that the end of the
\* file cuts in the middle of an uncompressed run, after pixels of the run
\* have gone through the color buffer, one byte being left over
C1_Witness ==
  /\ pc = "exit" /\ err = NoErr
  /\ rle.done /\ rle.pos > 0 /\ rle.unc_pixels_left > 0
  /\ ctx.bfOffBits + rle.pos + 1 = data.size
  /\ ctx.compressionType = "rle24" /\ Len(pixels) > 0

(***************************************************************************)
(* C2.  For every depth d in {1,2,4,8,16,24,32} and every width w >= 1     *)
(* the row stride inspectBits computes is ((w*d+31) div 32)*4, a positive  *)
(* multiple of 4 that holds the w*d bits of a row.                         *)
(***************************************************************************)
C2_RowStride ==
  (pc = "afterbits" /\ ctx.bitCount \in Depths /\ ctx.imgWidth >= 1) =>
    /\ ctx.rowStride = (((ctx.imgWidth * ctx.bitCount) + 31) \div 32) * 4
    /\ ctx.rowStride > 0
    /\ ctx.rowStride % 4 = 0
    /\ 8 * ctx.rowStride >= ctx.imgWidth * ctx.bitCount

C2_Witness ==
  /\ pc = "afterbits" /\ ctx.imgWidth = 3 /\ ctx.bitCount = 24
  /\ ctx.rowStride = 12

(***************************************************************************)
(* C3.  As claimed: two files of length >= 18 with the same first 18 bytes *)
(* get the same variant.                                                   *)
(***************************************************************************)
C3_First18 ==
  pc = "infoheader" =>
    \A a \in AltFiles(data) :
      (a.size >= 18 /\ SamePrefix(a, data, 18)) => VersionOf(a) = ctx.bmpVerID

(***************************************************************************)
(* C3, amended.  Two files of length >= 34 with the same first 34 bytes    *)
(* get the same variant, whatever the remaining bytes and the lengths are. *)
(***************************************************************************)
C3_First34 ==
  (pc = "infoheader" /\ data.size >= 34) =>
    \A a \in AltFiles(data) :
      (a.size >= 34 /\ SamePrefix(a, data, 34)) => VersionOf(a) = ctx.bmpVerID

C3_Witness ==
  /\ pc = "infoheader" /\ data.size >= 34 /\ ctx.bmpVerID = "os2v2"
  /\ RawInfoHeaderSize = 40
  /\ \E a \in AltFiles(data) :
       a # data /\ a.size >= 34 /\ SamePrefix(a, data, 34)

(***************************************************************************)
(* C4.  A header size of 12 is OS/2 v1 exactly when the reported size is   *)
(* 26 and Windows v2 otherwise, whatever the other bytes are.              *)
(***************************************************************************)
C4_Size12 ==
  (pc = "infoheader" /\ RawInfoHeaderSize = 12) =>
    /\ ctx.bmpVerID = (IF RawFSize = 26 THEN "os2v1" ELSE "winv2")
    /\ \A a \in AltFiles(data) :
         (a.size >= 18 /\ SamePrefix(a, data, 18)) =>
           VersionOf(a) = ctx.bmpVerID

C4_Witness ==
  /\ pc = "infoheader" /\ RawInfoHeaderSize = 12 /\ RawFSize = 26
  /\ ctx.bmpVerID = "os2v1" /\ data.size >= 34

(***************************************************************************)
(* C5.  A header size s other than 12: OS/2 v2 when 16 <= s <= 64 and the  *)
(* heuristic fires; otherwise by the size; an unknown variant makes the    *)
(* header stage abort before any header field is decoded.                  *)
(***************************************************************************)
C5_Heuristic ==
  \/ (RawCompression = 3 /\ RawBitCount = 1)
  \/ (RawCompression = 4 /\ RawBitCount = 24)
  \/ RawFSize = 14 + RawInfoHeaderSize

C5_Expected ==
  LET z == RawInfoHeaderSize
  IN  IF z >= 16 /\ z <= 64 /\ C5_Heuristic THEN "os2v2"
      ELSE CASE z = 40 -> "winv3"
             [] z = 52 -> "52"
             [] z = 56 -> "56"
             [] z >= 16 /\ z <= 64 /\ z \notin {40, 52, 56} -> "os2v2"
             [] z = 108 -> "winv4"
             [] z = 124 -> "winv5"
             [] OTHER -> "unknown"

C5_OtherSizes ==
  /\ (pc = "infoheader" /\ RawInfoHeaderSize # 12) =>
       ctx.bmpVerID = C5_Expected
  /\ (ctx.bmpVerID = "unknown"
        /\ pc \notin { "main2", "fileheader", "infoheader" }) =>
       /\ pc \in { "ret", "exit", "done" }
       /\ err \in { "Unexpected end of file", "Unknown BMP version" }
       /\ ctx.pos = 14
       /\ ~Printed("Width") /\ ~Printed("BitCount")
       /\ ctx.bitCount = 0 /\ ctx.imgWidth = 0 /\ ctx.imgHeight = 0

C5_Witness ==
  /\ pc = "infoheader" /\ RawInfoHeaderSize = 40 /\ RawCompression = 4
  /\ RawFSize # 54 /\ ctx.bmpVerID = "os2v2"

(***************************************************************************)
(* C6.  As claimed: an OS/2 v2 header of which only a part of the declared *)
(* bytes is in the file (at least the 16 bytes the decoder needs) is not   *)
(* by itself a reason for the header stage to abort.                       *)
(***************************************************************************)
C6_TruncatedDeclared ==
  (pc = "ret" /\ ctx.bmpVerID = "os2v2" /\ ctx.pos = 14
     /\ ctx.fileSize - ctx.pos >= 16) =>
    err # "Unexpected end of file"

(***************************************************************************)
(* C6, amended.  An OS/2 v2 header that declares fewer bytes than the full *)
(* 64-byte layout is decoded for exactly the fields that fit in the        *)
(* declared size, the other fields keep their defaults, and the header     *)
(* stage fails only for a colors-used value above 100000 or an invalid bit *)
(* depth; it aborts with 'Unexpected end of file' exactly when the file    *)
(* holds fewer bytes than the header declares.                             *)
(***************************************************************************)
C6_FieldFits(name) ==
  \E j \in 1..Len(os2v2Fields) :
    os2v2Fields[j][3] = name /\ os2v2Fields[j][2] <= ctx.infoHeaderSize

C6_ShortOS2V2 ==
  /\ (pc = "bitfields" /\ ctx.bmpVerID = "os2v2") =>
       /\ \A j \in 1..Len(os2v2Fields) :
            Printed(os2v2Fields[j][3]) <=> C6_FieldFits(os2v2Fields[j][3])
       /\ Printed("Compression") <=> ctx.infoHeaderSize >= 20
       /\ Printed("SizeImage") <=> ctx.infoHeaderSize >= 24
       /\ Printed("ClrUsed") <=> ctx.infoHeaderSize >= 36
       /\ Printed("ClrImportant") <=> ctx.infoHeaderSize >= 40
       /\ ctx.infoHeaderSize < 20 =>
            (ctx.compressionCode = 0 /\ ctx.compressionType = "none"
               /\ ~ctx.isCompressed)
       /\ ctx.infoHeaderSize < 24 => ctx.sizeImage = 0
       /\ ctx.infoHeaderSize < 36 =>
            ctx.palNumEntries =
              (IF ctx.bitCount <= 8 THEN 2 ^ ctx.bitCount ELSE 0)
  /\ (pc = "ret" /\ ctx.bmpVerID = "os2v2" /\ ctx.pos = 14) =>
       /\ err \in { "Unexpected end of file", "Unreasonable color table size",
                    "Invalid BitCount" }
       /\ err = "Unexpected end of file" <=>
            ctx.fileSize - ctx.pos < ctx.infoHeaderSize

C6_Witness ==
  /\ pc = "bitfields" /\ ctx.bmpVerID = "os2v2" /\ ctx.infoHeaderSize = 44
  /\ Printed("Reserved") /\ ~Printed("Recording")

(***************************************************************************)
(* C7.  A stage that finds the file to end before its region is complete   *)
(* makes readBmp return a fatal error, leaves the cursor where it was, and *)
(* no later stage runs.                                                    *)
(***************************************************************************)
C7_Short ==
  \/ (pc = "fileheader" /\ ctx.fileSize < 18)
  \/ (pc = "infoheader" /\ ctx.fileSize - ctx.pos < ctx.infoHeaderSize)
  \/ (pc = "bitfields" /\ ctx.hasBitfieldsSegment
        /\ ctx.bitfieldsSegmentSize \in {12, 16}
        /\ ctx.fileSize - ctx.pos < ctx.bitfieldsSegmentSize)
  \/ (pc = "colortable" /\ ctx.palSizeInBytes > 0
        /\ ctx.fileSize - ctx.pos < ctx.palSizeInBytes)
  \/ (pc = "offbits" /\ ctx.bfOffBits > ctx.fileSize)

C7_Truncation ==
  [][ /\ C7_Short =>
           /\ pc' = "ret"
           /\ err' \in { "File is too small to be a BMP",
                         "Unexpected end of file", "Bad bfOffBits value" }
           /\ ctx'.pos = ctx.pos
           /\ out' \in { out, Append(out, "INFOHEADER") }
      /\ pc = "ret" => (pc' = "exit" /\ ctx' = ctx /\ err' = err)
    ]_vars

C7_Witness ==
  /\ pc = "ret" /\ err = "Unexpected end of file"
  /\ ctx.palSizeInBytes > 0 /\ ctx.pos = 14 + ctx.infoHeaderSize
  /\ ctx.fileSize - ctx.pos < ctx.palSizeInBytes
  /\ Printed("INFOHEADER") /\ ~Printed("Color table")

(***************************************************************************)
(* C8.  The bit-depth check after a successful header decode accepts       *)
(* exactly the combinations of the table and rejects every other one with  *)
(* 'Invalid BitCount', after which no further stage runs.                  *)
(***************************************************************************)
C8_Accepted(c) ==
  CASE c.bitCount = 0 -> /\ c.bmpVerID \in { "winv4", "winv5" }
                         /\ c.compressionCode \in { 4, 5 }
    [] c.bitCount \in { 1, 4, 8, 24 } -> TRUE
    [] c.bitCount = 2 -> c.bmpVerID = "winv3"
    [] c.bitCount \in { 16, 32 } ->
         c.bmpVerID \notin { "os2v1", "winv2", "os2v2" }
    [] OTHER -> FALSE

C8_BitCount ==
  [][ /\ (pc = "infoheader" /\ pc' = "bitfields") => C8_Accepted(ctx')
      /\ (pc = "infoheader" /\ pc' = "ret"
            /\ err' \notin { "Unexpected end of file", "Unknown BMP version",
                             "Unreasonable color table size" }) =>
           /\ err' = "Invalid BitCount"
           /\ ~C8_Accepted(ctx')
           /\ ctx'.pos = ctx.pos
      /\ (pc = "ret" /\ err = "Invalid BitCount") =>
           /\ pc' = "exit"
           /\ ~Printed("BITFIELDS") /\ ~Printed("Color table")
           /\ ~Printed("Bitmap bits")
    ]_vars

C8_Witness ==
  /\ pc = "ret" /\ err = "Invalid BitCount" /\ ctx.bitCount = 16
  /\ ctx.bmpVerID = "os2v2"

(***************************************************************************)
(* C9.  For headers of the version 3 layout the compression code is        *)
(* resolved by variant: 3 is huffman1d and 4 is rle24 on OS/2 v2, 3 is     *)
(* none and 4 is jpeg elsewhere; isCompressed iff the type is not none.    *)
(***************************************************************************)
C9_Lookup(code, ver) ==
  CASE code = 0 -> "none"
    [] code = 1 -> "rle8"
    [] code = 2 -> "rle4"
    [] code = 3 -> IF ver = "os2v2" THEN "huffman1d" ELSE "none"
    [] code = 4 -> IF ver = "os2v2" THEN "rle24" ELSE "jpeg"
    [] code = 5 -> "png"
    [] code = 6 -> "none"
    [] OTHER -> "unknown"

C9_Compression ==
  (V3Layout /\ Printed("BitCount")) =>
    /\ Printed("Compression") => ctx.compressionCode = getDWORD(data, 14 + 16)
    /\ ~Printed("Compression") => ctx.compressionCode = 0
    /\ ctx.compressionType = C9_Lookup(ctx.compressionCode, ctx.bmpVerID)
    /\ ctx.isCompressed <=> ctx.compressionType # "none"

C9_Witness ==
  /\ pc = "bitfields" /\ ctx.bmpVerID = "os2v2" /\ ctx.compressionCode = 4
  /\ ctx.compressionType = "rle24" /\ ctx.isCompressed

(***************************************************************************)
(* C10.  As claimed: for a header of the version 3 layout with a depth     *)
(* d <= 8 the palette has 2^d entries unless colors-used is non-zero.      *)
(***************************************************************************)
C10_DepthUpTo8 ==
  (pc = "bitfields" /\ V3Layout /\ ctx.bitCount <= 8) =>
    ctx.palNumEntries =
      (IF RawClrUsed # 0 THEN RawClrUsed ELSE 2 ^ ctx.bitCount)

(***************************************************************************)
(* C10, amended.  For a header of the version 3 layout with a depth        *)
(* 1 <= d <= 8 the palette has 2^d entries unless colors-used is non-zero, *)
(* in which case it has colors-used entries; with depth 0 or depth > 8 it  *)
(* has colors-used entries (none when colors-used is 0); a colors-used     *)
(* value above 100000 makes the header decode fail, and no palette of more *)
(* than 100000 entries is read.                                            *)
(***************************************************************************)
C10_Palette ==
  [][ /\ (pc = "infoheader" /\ pc' = "bitfields" /\ V3Layout) =>
           /\ ctx'.palNumEntries =
                (IF ctx'.bitCount >= 1 /\ ctx'.bitCount <= 8 /\ RawClrUsed = 0
                 THEN 2 ^ ctx'.bitCount ELSE RawClrUsed)
           /\ RawClrUsed <= 100000
      /\ (pc = "infoheader" /\ V3Layout /\ headerFits(ctx)
            /\ RawClrUsed > 100000) =>
           (pc' = "ret" /\ err' = "Unreasonable color table size"
              /\ ctx'.pos = ctx.pos)
      /\ (pc = "colortable" /\ pc' = "offbits") => ctx.palNumEntries <= 100000
    ]_vars

C10_Witness ==
  /\ pc = "bitfields" /\ ctx.bmpVerID = "winv5" /\ ctx.bitCount = 0
  /\ ctx.palNumEntries = 0 /\ RawClrUsed = 0

(***************************************************************************)
(* C11.  As claimed: after header decode the palette entry width is 3      *)
(* bytes for OS/2 v1 and OS/2 v2 and 4 bytes for Windows v3 and every      *)
(* later Windows variant.                                                  *)
(***************************************************************************)
C11_OS2Three ==
  pc = "bitfields" =>
    /\ ctx.bmpVerID \in { "os2v1", "os2v2" } => ctx.palBytesPerEntry = 3
    /\ ctx.bmpVerID \in { "winv3", "52", "56", "winv4", "winv5" } =>
         ctx.palBytesPerEntry = 4

(***************************************************************************)
(* C11, amended.  After header decode the palette entry width is 3 bytes   *)
(* for the 12-byte headers (OS/2 v1 and Windows v2) and 4 bytes for OS/2   *)
(* v2, Windows v3 and every later Windows variant; the size of the palette *)
(* is the entry count times that width.  Only the color-table stage makes  *)
(* the width 3 for OS/2 v2, and only when the bytes between the header and *)
(* the pixel-data offset are exactly 3 times the entry count; no other     *)
(* stage changes the width.                                                *)
(***************************************************************************)
C11_EntryWidth ==
  [][ /\ (pc = "infoheader" /\ pc' = "bitfields") =>
           /\ ctx'.palBytesPerEntry =
                (IF ctx'.bmpVerID \in { "os2v1", "winv2" } THEN 3 ELSE 4)
           /\ ctx'.palSizeInBytes =
                ctx'.palBytesPerEntry * ctx'.palNumEntries
      /\ (pc = "colortable" /\ pc' = "offbits" /\ ctx.palSizeInBytes > 0) =>
           ctx'.palBytesPerEntry =
             (IF ctx.bmpVerID = "os2v2"
                 /\ ctx.bfOffBits - (14 + ctx.infoHeaderSize)
                      = 3 * ctx.palNumEntries
              THEN 3 ELSE ctx.palBytesPerEntry)
      /\ (pc \notin { "infoheader", "colortable" }) =>
           ctx'.palBytesPerEntry = ctx.palBytesPerEntry
    ]_vars

\* an OS/2 v2 header with a palette has been decoded: the entries are 4
\* bytes wide
C11_Witness ==
  /\ pc = "bitfields" /\ ctx.bmpVerID = "os2v2"
  /\ ctx.palNumEntries > 0 /\ ctx.palBytesPerEntry = 4
  /\ ctx.palSizeInBytes = 4 * ctx.palNumEntries

\* the bytes between the end of the header and the pixel-data offset
BytesAvailableForPalette == ctx.bfOffBits - (14 + ctx.infoHeaderSize)

(***************************************************************************)
(* C12.  As claimed: for every header variant, once the header is decoded  *)
(* the entry count times the entry width is at most the bytes between the  *)
(* end of the header and the pixel-data offset, and the palette reader     *)
(* leaves the cursor at or before the pixel-data offset.                   *)
(***************************************************************************)
C12_PaletteFits ==
  /\ pc = "bitfields" =>
       ctx.palNumEntries * ctx.palBytesPerEntry <= BytesAvailableForPalette
  /\ pc = "offbits" => ctx.pos <= ctx.bfOffBits

(***************************************************************************)
(* C12, amended.  Only the decoder of the 12-byte headers (OS/2 v1 and     *)
(* Windows v2) clips: for a depth up to 8, when the bytes between the end  *)
(* of the header and the pixel-data offset are at least 3 and fewer than   *)
(* 3 * 2^depth, the entry count is their number divided by 3 (rounded      *)
(* down) and a warning is printed, so that the palette ends at or before   *)
(* the pixel-data offset; with fewer than 3 such bytes the count stays     *)
(* 2^depth.  No other header is clipped.  A palette that is in the file is *)
(* read in full, beyond the pixel-data offset if it extends there; then    *)
(* readBmp returns the fatal error "Bad bfOffBits value", and the pixel    *)
(* stage is only entered with the cursor at the pixel-data offset.         *)
(***************************************************************************)
C12_Clipping ==
  [][ /\ (pc = "infoheader" /\ pc' = "bitfields"
            /\ ctx'.bmpVerID \in { "os2v1", "winv2" } /\ ctx'.bitCount <= 8) =>
           IF BytesAvailableForPalette >= 3
              /\ BytesAvailableForPalette < 3 * 2 ^ ctx'.bitCount
           THEN /\ ctx'.palNumEntries = BytesAvailableForPalette \div 3
                /\ ctx'.palSizeInBytes <= BytesAvailableForPalette
                /\ out'[Len(out')] = "Warning: Bitmap overlaps color table"
           ELSE /\ ctx'.palNumEntries = 2 ^ ctx'.bitCount
                /\ out'[Len(out')] # "Warning: Bitmap overlaps color table"
      /\ (pc = "infoheader" /\ pc' = "bitfields" /\ V3Layout') =>
           ctx'.palNumEntries =
             (IF ctx'.bitCount >= 1 /\ ctx'.bitCount <= 8 /\ RawClrUsed = 0
              THEN 2 ^ ctx'.bitCount ELSE RawClrUsed)
      /\ (pc = "colortable" /\ ctx.palSizeInBytes > 0 /\ colorTableFits(ctx)) =>
           (pc' = "offbits" /\ ctx'.pos = ctx.pos + ctx'.palSizeInBytes)
      /\ (pc = "offbits" /\ ctx.pos > ctx.bfOffBits) =>
           (pc' = "ret" /\ err' = "Bad bfOffBits value")
      /\ pc' = "bits" => ctx'.pos = ctx'.bfOffBits
    ]_vars

\* a 12-byte header has been decoded whose palette of 2 entries is clipped
\* to the 1 entry that fits before the pixel-data offset
C12_Witness ==
  /\ pc = "bitfields" /\ ctx.bmpVerID \in { "os2v1", "winv2" }
  /\ ctx.bitCount = 1 /\ ctx.palNumEntries = 1
  /\ BytesAvailableForPalette \in 3..5
  /\ Printed("Warning: Bitmap overlaps color table")

(***************************************************************************)
(* C13.  The color-table stage reports the entries in index order          *)
(* 0..count-1; with w the entry width (3 or 4) and the table starting at   *)
(* the cursor, entry i is reported as the bytes at i*w+2, i*w+1, i*w (red, *)
(* green, blue) followed, when w = 4, by the byte at i*w+3, each with the  *)
(* value it has in the file.  No other stage reports an entry.             *)
(***************************************************************************)
C13_DisplayOrder ==
  [][ /\ (pc = "colortable" /\ pc' = "offbits" /\ ctx.palSizeInBytes > 0) =>
           /\ ctx'.palBytesPerEntry \in { 3, 4 }
           /\ Len(palette') = ctx'.palNumEntries
           /\ \A i \in 0..(ctx'.palNumEntries - 1) :
                /\ palette'[i + 1].i = i
                /\ palette'[i + 1].samples =
                     [ k \in 1..ctx'.palBytesPerEntry |->
                         ByteAt(data, ctx.pos + i * ctx'.palBytesPerEntry
                                        + << 2, 1, 0, 3 >>[k]) ]
      /\ ~(pc = "colortable" /\ pc' = "offbits" /\ ctx.palSizeInBytes > 0) =>
           palette' = palette ]_vars

C13_Witness ==
  /\ pc = "offbits" /\ ctx.palBytesPerEntry = 4 /\ Len(palette) = 2
  /\ palette[1] = [ i |-> 0, samples |-> << 46, 31, 16, 61 >> ]
  /\ palette[2] = [ i |-> 1, samples |-> << 106, 91, 76, 121 >> ]

(***************************************************************************)
(* C14.  As claimed: after the bitfields and palette stages readBmp        *)
(* continues to pixel decoding only if the pixel-data offset lies strictly *)
(* after the cursor and at most at the file length.                        *)
(***************************************************************************)
C14_StrictlyAfter ==
  [][ (pc = "offbits" /\ pc' = "bits") =>
        (ctx.pos < ctx.bfOffBits /\ ctx.bfOffBits <= ctx.fileSize) ]_vars

(***************************************************************************)
(* C14, amended.  After the bitfields and palette stages readBmp continues *)
(* to pixel decoding exactly if the pixel-data offset lies within          *)
(* [cursor, file length]; otherwise it returns the error "Bad bfOffBits    *)
(* value" with nothing reported and the cursor unmoved.  When it           *)
(* continues, the pixel region starts exactly at the offset, and unused    *)
(* bytes are reported exactly if the offset lies after the cursor.         *)
(***************************************************************************)
C14_OffBits ==
  [][ pc = "offbits" =>
        IF ctx.pos <= ctx.bfOffBits /\ ctx.bfOffBits <= ctx.fileSize
        THEN /\ pc' = "bits" /\ err' = NoErr
             /\ ctx' = [ctx EXCEPT !.pos = ctx.bfOffBits]
             /\ out' = IF ctx.pos < ctx.bfOffBits
                       THEN Append(out, "unused bytes") ELSE out
        ELSE /\ pc' = "ret" /\ err' = "Bad bfOffBits value"
             /\ ctx' = ctx /\ out' = out ]_vars

C14_Witness ==
  /\ pc = "bits" /\ ctx.pos = ctx.bfOffBits
  /\ ~ctx.hasBitfieldsSegment
  /\ ctx.palSizeInBytes = 8
  /\ ctx.bfOffBits = 14 + ctx.infoHeaderSize + ctx.palSizeInBytes
  /\ ~Printed("unused bytes")

(***************************************************************************)
(* C15.  As claimed: no file with a flagged color profile whose offset     *)
(* plus size exceeds the file length finishes without a fatal error.       *)
(***************************************************************************)
C15_AlwaysValidated ==
  (pc = "exit" /\ ctx.hasProfile
     /\ ctx.profileOffset + ctx.profileSize > ctx.fileSize) => err # NoErr

(***************************************************************************)
(* C15, amended.  readBmp validates the location of a flagged color        *)
(* profile only when the pixel stage has set a size of at least 1 for the  *)
(* bitmap bits; otherwise (compressed bits that are not decoded, or a      *)
(* calculated size below 1) it returns without error and without looking   *)
(* at the profile.  When it validates, the cursor first passes the bits;   *)
(* a cursor beyond the profile offset gives "Invalid color profile         *)
(* location", a gap before the offset is reported as unused bytes, and an  *)
(* offset plus size beyond the file length gives "Invalid color profile    *)
(* size"; else the cursor passes the profile.                              *)
(***************************************************************************)
C15_Profile ==
  [][ /\ (pc = "afterbits" /\ ctx.actualBitsSize < 1) =>
           (pc' = "ret" /\ err' = NoErr /\ out' = out /\ ctx' = ctx)
      /\ (pc = "afterbits" /\ ctx.actualBitsSize >= 1) =>
           (pc' = "profile" /\ ctx'.pos = ctx.pos + ctx.actualBitsSize)
      /\ (pc = "profile" /\ ~ctx.hasProfile) =>
           (pc' = "tail" /\ err' = NoErr /\ out' = out /\ ctx' = ctx)
      /\ (pc = "profile" /\ ctx.hasProfile) =>
           IF ctx.pos > ctx.profileOffset
           THEN pc' = "ret" /\ err' = "Invalid color profile location"
                  /\ out' = out
           ELSE LET o1 == IF ctx.pos < ctx.profileOffset
                          THEN Append(out, "unused bytes") ELSE out
                IN  IF ctx.profileOffset + ctx.profileSize > ctx.fileSize
                    THEN pc' = "ret" /\ err' = "Invalid color profile size"
                           /\ out' = o1
                    ELSE /\ pc' = "tail" /\ err' = NoErr
                         /\ ctx'.pos = ctx.profileOffset + ctx.profileSize
                         /\ out' = Append(o1, IF ctx.profileIsLinked
                                               THEN "Linked color profile"
                                               ELSE "Color profile")
      /\ (pc = "ret" /\ pc' = "exit" /\ ctx.hasProfile /\ err = NoErr
            /\ ctx.profileOffset + ctx.profileSize > ctx.fileSize) =>
           ctx.actualBitsSize < 1 ]_vars

C15_Witness ==
  /\ pc = "ret" /\ ctx.hasProfile /\ err = "Invalid color profile size"
  /\ ctx.pos = ctx.profileOffset
  /\ ctx.profileOffset + ctx.profileSize > ctx.fileSize
  /\ out[Len(out)] = "unused bytes"

(***************************************************************************)
(* C16.  Once the file is in memory every run ends, and ends with "End of  *)
(* file" reported exactly once, by main2 after readBmp has returned, on    *)
(* success and after an error alike.  An error makes readBmp return at the *)
(* stage that raised it: no later stage runs, the error reaches main       *)
(* unchanged, and main reports it after the end-of-file marker.            *)
(***************************************************************************)
EndOfFileMarks == Cardinality({ i \in DOMAIN out : out[i] = "End of file" })

C16_EndOfFile ==
  /\ [][ /\ (err = NoErr /\ err' # NoErr) => pc' = "ret"
         /\ err # NoErr =>
              /\ pc \in { "ret", "exit" }
              /\ UNCHANGED <<ctx, err, palette, decoder>>
         /\ pc = "ret" => (pc' = "exit" /\ out' = Append(out, "End of file"))
         /\ pc # "ret" =>
              { i \in DOMAIN out' : out'[i] = "End of file" } =
                { i \in DOMAIN out : out[i] = "End of file" }
         /\ pc = "exit" =>
              /\ pc' = "done"
              /\ out' = IF err = NoErr THEN out
                        ELSE Append(out, "Error: " \o err) ]_vars
  /\ <>(/\ pc = "done"
        /\ EndOfFileMarks = 1
        /\ IF err = NoErr THEN out[Len(out)] = "End of file"
           ELSE /\ out[Len(out) - 1] = "End of file"
                /\ out[Len(out)] = "Error: " \o err)

C16_Witness ==
  /\ pc = "done" /\ err = "Bad bfOffBits value"
  /\ out[Len(out) - 1] = "End of file"
  /\ out[Len(out)] = "Error: Bad bfOffBits value"
  /\ EndOfFileMarks = 1
  /\ ctx.actualBitsSize = 0 /\ ~Printed("Bitmap bits")

\* the height field of the header, as its bytes give it: an unsigned word of
\* a 12-byte header, a signed 32-bit integer of the others
RawHeight ==
  IF ctx.bmpVerID \in { "os2v1", "winv2" } THEN getWORD(data, 14 + 6)
  ELSE getLONG(data, 14 + 8)

\* the pixels of the row of width w and depth bc stored at offset o, under
\* the label y
StoredRow(y, o, w, bc) ==
  [ k \in 1..w |->
      [ x |-> k - 1, y |-> y, n |-> pixelAt(data, bc, o, k - 1), len |-> 1 ] ]

(***************************************************************************)
(* C17.  The rows of an uncompressed image of height h are decoded in      *)
(* stored order, each once: the p-th iteration (p = 0..h-1) decodes the    *)
(* row at offset p*rowStride of the pixel region and labels it p if the    *)
(* height field of the header is negative, h-1-p otherwise; the loop ends  *)
(* after h rows, every label 0..h-1 having been given once.                *)
(***************************************************************************)
C17_RowOrder ==
  [][ /\ pc = "rows" => ctx.pos = ctx.bfOffBits
      /\ (pc = "bits" /\ pc' = "rows") => (rowPhysical' = 0 /\ pixels' = << >>)
      /\ (pc = "rows" /\ pc' = "rows") =>
           /\ rowPhysical < ctx.imgHeight
           /\ rowPhysical' = rowPhysical + 1
           /\ pixels' =
                pixels \o
                  StoredRow(IF RawHeight < 0 THEN rowPhysical
                            ELSE ctx.imgHeight - 1 - rowPhysical,
                            ctx.bfOffBits + rowPhysical * ctx.rowStride,
                            ctx.imgWidth, ctx.bitCount)
      /\ (pc = "rows" /\ pc' = "afterbits") =>
           /\ rowPhysical = ctx.imgHeight
           /\ ctx.imgHeight = Abs(RawHeight)
           /\ Len(pixels) = ctx.imgWidth * ctx.imgHeight
           /\ \A y \in 0..(ctx.imgHeight - 1) :
                Cardinality({ k \in DOMAIN pixels : pixels[k].y = y }) =
                  ctx.imgWidth
           /\ pixels' = pixels ]_vars

C17_Witness ==
  /\ pc = "afterbits" /\ ~ctx.topDown /\ ctx.bitCount = 8
  /\ ctx.imgWidth = 2 /\ ctx.imgHeight = 2
  /\ pixels = << [x |-> 0, y |-> 1, n |-> 8, len |-> 1],
                 [x |-> 1, y |-> 1, n |-> 15, len |-> 1],
                 [x |-> 0, y |-> 0, n |-> 36, len |-> 1],
                 [x |-> 1, y |-> 0, n |-> 43, len |-> 1] >>

\* a header that declares a compression (RLE, Huffman, JPEG or PNG) and a
\* negative height
CompressedTopDown ==
  /\ ctx.isCompressed /\ ctx.compressionType # "unknown"
  /\ ctx.topDown /\ RawHeight < 0

RawWidth ==
  IF ctx.bmpVerID \in { "os2v1", "winv2" } THEN getWORD(data, 14 + 4)
  ELSE getLONG(data, 14 + 4)

\* the bytes of a row of the width and depth of the header, rows starting at
\* multiples of four bytes
RawStride == (((RawWidth * ctx.bitCount) + 31) \div 32) * 4

\* the conditions under which the rows of an uncompressed image are decoded
RowsDecodable ==
  /\ RawWidth >= 1 /\ Abs(RawHeight) >= 1
  /\ RawStride >= 1 /\ RawStride <= 1000000
  /\ ctx.fileSize - ctx.bfOffBits >= RawStride * Abs(RawHeight)

(***************************************************************************)
(* C19.  A row of an uncompressed image is decoded only if width >= 1,     *)
(* height >= 1, 1 <= rowStride <= 1000000 and the pixel region (from the   *)
(* pixel-data offset to the end of the file) holds at least                *)
(* rowStride*height bytes.  When one of these fails no row is decoded, and *)
(* the pixel stage returns no error in either case, for the 12-byte        *)
(* headers (unsigned width and height) as for the others.                  *)
(***************************************************************************)
C19_Decodable ==
  [][ /\ (pc = "rows" /\ pc' = "rows") =>
           (~ctx.isCompressed /\ RowsDecodable /\ Len(pixels') > Len(pixels))
      /\ (pc \in { "bits", "rows" } /\ ~ctx.isCompressed /\ ~RowsDecodable) =>
           /\ pixels' = << >> /\ rowPhysical' = 0
           /\ pc' \in { "rows", "afterbits" }
           /\ pc' = "rows" => ~(rowPhysical' < ctx'.imgHeight)
      /\ pc = "bits" =>
           (err' = NoErr /\ pc' \in { "rows", "rle", "afterbits" }) ]_vars

C19_Witness ==
  /\ pc = "afterbits" /\ ~ctx.isCompressed /\ ctx.bmpVerID = "winv2"
  /\ RawWidth = 1 /\ RawHeight = 0 /\ RawStride = 4
  /\ ctx.printPixels /\ pixels = << >> /\ err = NoErr

\* the first pair of the compressed data announces a literal run of N pixels
RunStart == ctx.bfOffBits
RunN == ByteAt(data, RunStart + 1)
LiteralFirst ==
  /\ pc = "rle" /\ ctx.fileSize >= RunStart + 2
  /\ ByteAt(data, RunStart) = 0 /\ RunN >= 3

\* the pairs that hold a literal run of n pixels, the padding included
RunPairs(n) ==
  IF ctx.compressionCode = bI_RLE24 THEN ((3 * n) + 1) \div 2
  ELSE IF ctx.compressionCode = bI_RLE4 THEN (n + 3) \div 4
  ELSE (n + 1) \div 2

\* the pixels k pairs of a literal run of n pixels hold
RunPixels(n, k) ==
  Min(n, IF ctx.compressionCode = bI_RLE24 THEN (2 * k) \div 3
         ELSE IF ctx.compressionCode = bI_RLE4 THEN 4 * k
         ELSE 2 * k)

\* the j-th pixel value (j = 0, 1, ...) stored after the code of the run
RunValue(j) ==
  IF ctx.compressionCode = bI_RLE24
  THEN 65536 * ByteAt(data, RunStart + 2 + 3 * j + 2)
         + 256 * ByteAt(data, RunStart + 2 + 3 * j + 1)
         + ByteAt(data, RunStart + 2 + 3 * j)
  ELSE IF ctx.compressionCode = bI_RLE4
  THEN IF j % 2 = 0 THEN ByteAt(data, RunStart + 2 + j \div 2) \div 16
       ELSE ByteAt(data, RunStart + 2 + j \div 2) % 16
  ELSE ByteAt(data, RunStart + 2 + j)

(***************************************************************************)
(* C20.  After the code (0, N), N in 3..255, of a literal run at the start *)
(* of RLE4, RLE8 or RLE24 data, the decoder has, k pairs later, reported   *)
(* the pixel values those k pairs hold, in stored order and one column     *)
(* after the other; the run is pending until ceil(N/4), ceil(N/2) or       *)
(* ceil(3N/2) pairs have been consumed, and then exactly N pixels have     *)
(* been reported, the column has advanced by N, and the decoder is idle    *)
(* (no pixel pending, the RLE24 buffer empty, padding discarded).          *)
(***************************************************************************)
C20_LiteralRun ==
  (LiteralFirst /\ rle.pos >= 2 /\ (rle.pos - 2) \div 2 <= RunPairs(RunN)) =>
    /\ rle.pos % 2 = 0
    /\ Len(pixels) = RunPixels(RunN, (rle.pos - 2) \div 2)
    /\ rlectx.xpos = Len(pixels)
    /\ rle.unc_pixels_left = RunN - Len(pixels)
    /\ \A j \in 1..Len(pixels) :
         pixels[j] = [ x |-> j - 1, y |-> ctx.imgHeight - 1,
                       n |-> RunValue(j - 1), len |-> 1 ]
    /\ ~rle.deltaFlag /\ ~rle.rle24pendingFlag
    /\ IF (rle.pos - 2) \div 2 < RunPairs(RunN)
       THEN rle.unc_pixels_left > 0
       ELSE /\ rle.unc_pixels_left = 0 /\ rle.clr24bytes_used = 0
            /\ Len(pixels) = RunN

C20_Witness ==
  /\ LiteralFirst /\ ctx.compressionCode = bI_RLE24 /\ RunN = 255
  /\ rle.pos = 2 + 2 * 383
  /\ rle.unc_pixels_left = 0 /\ rle.clr24bytes_used = 0
  /\ Len(pixels) = 255 /\ rlectx.xpos = 255
  /\ pixels[255].n = RunValue(254)

\* the pair of bytes the next iteration of the RLE decoder reads, and
\* whether nothing is pending when it reads them
RleB1 == ByteAt(data, ctx.pos + rle.pos)
RleB2 == ByteAt(data, ctx.pos + rle.pos + 1)
RleIdle ==
  rle.unc_pixels_left = 0 /\ ~rle.deltaFlag /\ ~rle.rle24pendingFlag
\* an iteration that reads a pair: the decoder is in its loop, and at least
\* two bytes are left
RlePairStep == pc = "rle" /\ rle.pos + 1 < ctx.fileSize - ctx.pos
\* the latched bad palette index
BadColorLatch ==
  << ctx.badColorFlag, ctx.badColorIndex, ctx.badColor_X, ctx.badColor_Y >>

\* the first palette index out of the palette that the compressed run
\* (RleB1, RleB2) paints, with the column it is painted at; << >> if none
RunBadColor ==
  IF ctx.compressionCode = bI_RLE8
  THEN IF RleB2 >= ctx.palNumEntries THEN << RleB2, rlectx.xpos >> ELSE << >>
  ELSE IF RleB2 \div 16 >= ctx.palNumEntries
  THEN << RleB2 \div 16, rlectx.xpos >>
  ELSE IF RleB1 >= 2 /\ RleB2 % 16 >= ctx.palNumEntries
  THEN << RleB2 % 16, rlectx.xpos + 1 >>
  ELSE << >>

(***************************************************************************)
(* C21.  A compressed run (count, value) of RLE4 or RLE8 data sets the bad *)
(* color flag iff a palette index it paints is not below the number of     *)
(* palette entries: the value for RLE8; the high nibble, and the low       *)
(* nibble when count >= 2, for RLE4.  The first such index is latched with *)
(* its column and row; once the flag is set no step of the decoder changes *)
(* the latch.                                                              *)
(***************************************************************************)
C21_RunBadColor ==
  [][ /\ (RlePairStep /\ RleIdle /\ RleB1 > 0 /\ ~ctx.badColorFlag
            /\ ctx.compressionCode \in { bI_RLE4, bI_RLE8 }) =>
           BadColorLatch' =
             (IF RunBadColor = << >> THEN BadColorLatch
              ELSE << TRUE, RunBadColor[1], RunBadColor[2], rlectx.ypos >>)
      /\ (pc = "rle" /\ ctx.badColorFlag) => BadColorLatch' = BadColorLatch
    ]_vars

C21_Witness ==
  /\ pc = "rle" /\ ctx.compressionCode = bI_RLE4 /\ ctx.palNumEntries = 2
  /\ rle.pos = 6
  /\ BadColorLatch = << TRUE, 15, 3, 1 >>
  /\ pixels[2] = [ x |-> 1, y |-> 1, n |-> 15, len |-> 1 ]

\* ---- the compressed data ends without an end-of-bitmap code ----

\* the loop of printRLECompressedPixels finds fewer than two bytes left
RleDataEnds == pc = "rle" /\ ~(rle.pos + 1 < ctx.fileSize - ctx.pos)

\* the lines endRLERow prints for the warnings that are latched and not
\* yet given
PendingWarnings ==
  (IF rlectx.badPosFlag /\ ~rlectx.badPosWarned
   THEN << "Warning: Out of bounds pixel" >> ELSE << >>)
  \o (IF ctx.badColorFlag /\ ~ctx.badColorWarned
      THEN << "Warning: Bad palette index" >> ELSE << >>)

\* the lines a step adds to the output
NewLines == { out'[i] : i \in (Len(out) + 1)..Len(out') }

BadPosLatch == << rlectx.badPosFlag, rlectx.badPos_X, rlectx.badPos_Y >>

\* how often a line has been printed
Count(line) == Cardinality({ i \in 1..Len(out) : out[i] = line })

\* the pixel stage has finished
PixelsDone == pc \in { "afterbits", "profile", "tail", "ret", "exit", "done" }

\* a step of the pixel stage that ends on an end-of-row point: a row of the
\* uncompressed decoder, or an iteration of the RLE decoder that has called
\* endRLERow
EndOfRowStep ==
  \/ pc = "rows" /\ rowPhysical' = rowPhysical + 1
  \/ pc = "rle" /\ ~rlectx'.rowHeaderPrinted

\* C23: in both decoders a latched bad color (index and coordinates) and a
\* latched out-of-bounds position never change once their flag is set; each
\* warning is printed at most once, only by a step that ends a row, and has
\* been printed exactly once for each set flag when the pixel stage is over.
C23_Latched ==
  /\ [](/\ Count("Warning: Bad palette index")
             = (IF ctx.badColorWarned THEN 1 ELSE 0)
        /\ Count("Warning: Out of bounds pixel")
             = (IF rlectx.badPosWarned THEN 1 ELSE 0)
        /\ ctx.badColorWarned => ctx.badColorFlag
        /\ rlectx.badPosWarned => rlectx.badPosFlag
        /\ PixelsDone => /\ ctx.badColorFlag => ctx.badColorWarned
                         /\ rlectx.badPosFlag => rlectx.badPosWarned)
  /\ [][ /\ ctx.badColorFlag => BadColorLatch' = BadColorLatch
         /\ rlectx.badPosFlag => BadPosLatch' = BadPosLatch
         /\ (NewLines \cap { "Warning: Bad palette index",
                             "Warning: Out of bounds pixel" } # {})
              => EndOfRowStep ]_vars

\* an uncompressed image whose first bad index is followed by a different
\* bad index has been decoded: the first one is latched and was reported
\* once
C23_Witness ==
  /\ pc = "afterbits" /\ ctx.compressionCode = bI_RGB
  /\ ctx.badColorFlag /\ ctx.badColorWarned
  /\ Count("Warning: Bad palette index") = 1
  /\ \E i, j \in 1..Len(pixels) :
       /\ i < j
       /\ \A k \in 1..(i - 1) : pixels[k].n < ctx.palNumEntries
       /\ pixels[i].n = ctx.badColorIndex /\ pixels[i].x = ctx.badColor_X
       /\ pixels[j].n >= ctx.palNumEntries
       /\ pixels[j].n # pixels[i].n

\* ---- what a pair is depends first on what is pending ----

ControlLines == { "EOL", "EOBMP", "DELTA" }
NewPixels == SubSeq(pixels', Len(pixels) + 1, Len(pixels'))

\* a pair read while an uncompressed run is pending is pixel data
PairIsLiteral ==
  /\ ~rle'.done /\ ~rle'.deltaFlag /\ ~rle'.rle24pendingFlag
  /\ rlectx'.ypos = rlectx.ypos /\ rlectx'.rowHeaderPrinted
  /\ NewLines \cap ControlLines = {}
  /\ rlectx'.xpos = rlectx.xpos + Len(NewPixels)
  /\ rle'.unc_pixels_left = rle.unc_pixels_left - Len(NewPixels)
  /\ CASE ctx.compressionCode = bI_RLE8 ->
            /\ Len(NewPixels) = Min(rle.unc_pixels_left, 2)
            /\ NewPixels[1].n = RleB1
       [] ctx.compressionCode = bI_RLE4 ->
            /\ Len(NewPixels) = Min(rle.unc_pixels_left, 4)
            /\ NewPixels[1].n = RleB1 \div 16
       [] OTHER ->
            /\ Len(NewPixels) = (IF rle.clr24bytes_used = 0 THEN 0 ELSE 1)
            /\ rle.clr24bytes_used = 0 =>
                 rle'.clr24bytes_used = 2 /\ rle'.clr24bytes[1] = RleB1
                   /\ rle'.clr24bytes[2] = RleB2

\* a pair read while a delta is pending is (dx, dy)
PairIsDelta ==
  /\ ~rle'.done /\ ~rle'.deltaFlag /\ ~rle'.rle24pendingFlag
  /\ rle'.unc_pixels_left = 0
  /\ NewLines \cap ControlLines = {}
  /\ NewPixels = << >>
  /\ rlectx'.xpos = rlectx.xpos + RleB1
  /\ rlectx'.ypos = rlectx.ypos - RleB2

\* the pair after the first pair of an RLE24 run is the rest of the color
PairIsColor ==
  /\ ~rle'.done /\ ~rle'.deltaFlag /\ ~rle'.rle24pendingFlag
  /\ rle'.unc_pixels_left = 0
  /\ NewLines \cap ControlLines = {}
  /\ rlectx'.ypos = rlectx.ypos
  /\ rlectx'.xpos = rlectx.xpos + rle.clr24bytes[1]
  /\ Len(NewPixels) = 1
  /\ NewPixels[1].n = 65536 * RleB2 + 256 * RleB1 + rle.clr24bytes[2]
  /\ NewPixels[1].len = rle.clr24bytes[1]

\* in the idle state a pair with b1 = 0 is a control code
PairIsControl ==
  /\ NewPixels = << >>
  /\ ~rle'.rle24pendingFlag
  /\ CASE RleB2 = 0 -> "EOL" \in NewLines /\ ~rle'.done /\ ~rle'.deltaFlag
       [] RleB2 = 1 -> "EOBMP" \in NewLines /\ rle'.done
       [] RleB2 = 2 -> "DELTA" \in NewLines /\ rle'.deltaFlag /\ ~rle'.done
       [] OTHER -> /\ NewLines \cap ControlLines = {}
                   /\ rle'.unc_pixels_left = RleB2 /\ ~rle'.done

\* in the idle state a pair with b1 > 0 is a compressed run
PairIsRun ==
  /\ ~rle'.done /\ ~rle'.deltaFlag /\ rle'.unc_pixels_left = 0
  /\ NewLines \cap ControlLines = {}
  /\ rlectx'.ypos = rlectx.ypos
  /\ IF ctx.compressionCode = bI_RLE24
     THEN /\ rle'.rle24pendingFlag /\ NewPixels = << >>
          /\ rle'.clr24bytes[1] = RleB1 /\ rle'.clr24bytes[2] = RleB2
     ELSE /\ ~rle'.rle24pendingFlag
          /\ Len(NewPixels) = 1 /\ NewPixels[1].len = RleB1
          /\ NewPixels[1].n = RleB2

\* C24: the RLE decoder classifies a pair by what is pending first: pixel
\* data while an uncompressed run is pending, else (dx,dy) while a delta is
\* pending, else the rest of the color while an RLE24 run is pending, even
\* when the pair is 00 00, 00 01 or 00 02; only when nothing is pending is a
\* pair with b1 = 0 a control code and a pair with b1 > 0 a compressed run.
C24_PendingFirst ==
  [][ RlePairStep =>
        CASE rle.unc_pixels_left > 0 -> PairIsLiteral
          [] rle.unc_pixels_left = 0 /\ rle.deltaFlag -> PairIsDelta
          [] rle.unc_pixels_left = 0 /\ ~rle.deltaFlag
               /\ rle.rle24pendingFlag -> PairIsColor
          [] RleIdle /\ RleB1 = 0 -> PairIsControl
          [] OTHER -> PairIsRun ]_vars

\* an RLE8 stream 00 03 00 01: the pair 00 01 has been read as two pixels of
\* the uncompressed run and the decoder goes on
C24_Witness ==
  /\ pc = "rle" /\ ctx.compressionCode = bI_RLE8
  /\ rle.pos = 4 /\ rle.unc_pixels_left = 1 /\ ~rle.done
  /\ ByteAt(data, ctx.pos) = 0 /\ ByteAt(data, ctx.pos + 1) = 3
  /\ ByteAt(data, ctx.pos + 2) = 0 /\ ByteAt(data, ctx.pos + 3) = 1
  /\ Len(pixels) = 2 /\ pixels[1].n = 0 /\ pixels[2].n = 1

\* ---- the control codes ----

RlePosition == << rlectx.xpos, rlectx.ypos >>
RlePending == << rle.unc_pixels_left, rle.deltaFlag, rle.rle24pendingFlag >>

\* C25: when nothing is pending, the pair (0,0) closes the row, goes to
\* column 0 of the row below; (0,1) closes the row and leaves the loop, the
\* actual size of the bits being the offset just past the pair; (0,2) sets
\* the delta flag and leaves the position alone; (0,n), n >= 3, begins an
\* uncompressed run of n pixels.
C25_ControlCodes ==
  [][ (RlePairStep /\ RleIdle /\ RleB1 = 0) =>
        CASE RleB2 = 0 ->
               /\ ~rlectx'.rowHeaderPrinted
               /\ RlePosition' = << 0, rlectx.ypos - 1 >>
               /\ RlePending' = RlePending
               /\ pc' = "rle" /\ rle'.pos = rle.pos + 2
          [] RleB2 = 1 ->
               /\ ~rlectx'.rowHeaderPrinted
               /\ pc' = "afterbits" /\ rle'.done
               /\ rle'.pos = rle.pos + 2
               /\ ctx'.actualBitsSize = rle.pos + 2
          [] RleB2 = 2 ->
               /\ RlePosition' = RlePosition
               /\ RlePending' = << 0, TRUE, FALSE >>
               /\ rlectx'.rowHeaderPrinted
               /\ pc' = "rle" /\ rle'.pos = rle.pos + 2
          [] OTHER ->
               /\ RlePosition' = RlePosition
               /\ RlePending' = << RleB2, FALSE, FALSE >>
               /\ rlectx'.rowHeaderPrinted
               /\ pc' = "rle" /\ rle'.pos = rle.pos + 2 ]_vars

\* an end-of-bitmap code has been read with bytes left after it: the
\* decode is over and the size of the bits is the offset past the code
C25_Witness ==
  /\ pc = "afterbits" /\ rle.done
  /\ rle.pos >= 4 /\ ctx.actualBitsSize = rle.pos
  /\ ByteAt(data, ctx.pos + rle.pos - 2) = 0
  /\ ByteAt(data, ctx.pos + rle.pos - 1) = 1
  /\ ByteAt(data, ctx.pos + rle.pos - 4) = 0
  /\ ByteAt(data, ctx.pos + rle.pos - 3) = 0
  /\ rlectx.ypos = ctx.imgHeight - 2 /\ rlectx.xpos = 0
  /\ ctx.fileSize - ctx.pos >= rle.pos + 2

\* ---- the pair after a delta code ----

\* C26: the pair read while a delta is pending is (dx,dy): the column grows
\* by dx, the row falls by dy, the row is closed iff dy > 0, no pixel is
\* printed, no position or color is checked, and nothing is pending after
\* it.
C26_Delta ==
  [][ (RlePairStep /\ rle.unc_pixels_left = 0 /\ rle.deltaFlag) =>
        /\ rlectx'.xpos = rlectx.xpos + RleB1
        /\ rlectx'.ypos = rlectx.ypos - RleB2
        /\ rlectx'.ypos <= rlectx.ypos
        /\ ~rlectx'.rowHeaderPrinted <=> RleB2 > 0
        /\ pixels' = pixels
        /\ BadPosLatch' = BadPosLatch
        /\ BadColorLatch' = BadColorLatch
        /\ RlePending' = << 0, FALSE, FALSE >>
        /\ pc' = "rle" ]_vars

\* the pair 01 2f after a delta code has moved the position out of the
\* image: one column to the right, 47 rows down, the row closed, nothing
\* latched
C26_Witness ==
  /\ pc = "rle" /\ rle.pos = 4
  /\ ByteAt(data, ctx.pos) = 0 /\ ByteAt(data, ctx.pos + 1) = 2
  /\ ByteAt(data, ctx.pos + 2) = 1 /\ ByteAt(data, ctx.pos + 3) = 47
  /\ RlePosition = << 1, ctx.imgHeight - 1 - 47 >>
  /\ rlectx.ypos < 0
  /\ ~rlectx.badPosFlag /\ ~rlectx.rowHeaderPrinted
  /\ RleIdle /\ pixels = << >>

\* ---- the positions a compressed run checks ----

\* a column of the current row is outside the image
OutOfBounds(x) == x >= ctx.imgWidth \/ rlectx.ypos < 0

\* the latch after a run of n pixels from column x that checks its first
\* and its last pixel
EndpointLatch(x, n) ==
  IF OutOfBounds(x) THEN << TRUE, x, rlectx.ypos >>
  ELSE IF OutOfBounds(x + n - 1) THEN << TRUE, x + n - 1, rlectx.ypos >>
  ELSE BadPosLatch

\* the latch after an RLE4 run of n pixels from column x: its first pixel,
\* its second pixel if it has one, and its last pixel if it has a third
NibbleLatch(x, n) ==
  IF OutOfBounds(x) THEN << TRUE, x, rlectx.ypos >>
  ELSE IF n > 1 /\ OutOfBounds(x + 1) THEN << TRUE, x + 1, rlectx.ypos >>
  ELSE IF n > 2 /\ OutOfBounds(x + n - 1)
       THEN << TRUE, x + n - 1, rlectx.ypos >>
  ELSE BadPosLatch

\* the first pair of a run is read
RunFirstPair == RlePairStep /\ RleIdle /\ RleB1 > 0
\* the completing pair of an RLE24 run is read
RunLastPair ==
  RlePairStep /\ rle.unc_pixels_left = 0 /\ ~rle.deltaFlag
    /\ rle.rle24pendingFlag

\* what holds of the runs of RLE8 and RLE24, and of the column after any
\* run
RunEndpoints ==
  /\ (RunFirstPair /\ ctx.compressionCode = bI_RLE8) =>
       /\ rlectx'.xpos = rlectx.xpos + RleB1
       /\ ~rlectx.badPosFlag =>
            BadPosLatch' = EndpointLatch(rlectx.xpos, RleB1)
  /\ (RunFirstPair /\ ctx.compressionCode = bI_RLE4) =>
       rlectx'.xpos = rlectx.xpos + RleB1
  /\ (RunFirstPair /\ ctx.compressionCode = bI_RLE24) =>
       /\ rlectx'.xpos = rlectx.xpos
       /\ ~rlectx.badPosFlag => BadPosLatch' = EndpointLatch(rlectx.xpos, 1)
  /\ RunLastPair =>
       /\ rlectx'.xpos = rlectx.xpos + rle.clr24bytes[1]
       /\ ~rlectx.badPosFlag =>
            BadPosLatch' = EndpointLatch(rlectx.xpos, rle.clr24bytes[1])
  /\ ((RunFirstPair \/ RunLastPair) /\ rlectx.badPosFlag) =>
       BadPosLatch' = BadPosLatch

\* C27 as stated: a compressed run of b1 pixels moves the column by b1
\* (RLE24: when its completing pair is read) and, if no position is latched
\* yet, latches the first of its first and last pixel that is outside the
\* image, and nothing if neither is; this for RLE4 as for RLE8 and RLE24.
C27_Endpoints ==
  [][ /\ RunEndpoints
      /\ (RunFirstPair /\ ctx.compressionCode = bI_RLE4
            /\ ~rlectx.badPosFlag) =>
           BadPosLatch' = EndpointLatch(rlectx.xpos, RleB1) ]_vars

\* C27, amended: as stated for RLE8 and RLE24; an RLE4 run also checks its
\* second pixel, so the position it latches is the first of its first,
\* second and last pixel that is outside the image.
C27_RunPosition ==
  [][ /\ RunEndpoints
      /\ (RunFirstPair /\ ctx.compressionCode = bI_RLE4
            /\ ~rlectx.badPosFlag) =>
           BadPosLatch' = NibbleLatch(rlectx.xpos, RleB1) ]_vars

\* an RLE4 run of 3 pixels has begun in the last column of an image 8
\* wide: the position latched is that of its second pixel, column 8, and
\* the column is 10
C27_Witness ==
  /\ pc = "rle" /\ ctx.compressionCode = bI_RLE4 /\ ctx.imgWidth = 8
  /\ rle.pos = 6 /\ ByteAt(data, ctx.pos + 4) = 3
  /\ rlectx.xpos = 10
  /\ BadPosLatch = << TRUE, 8, ctx.imgHeight - 1 >>

\* ---- the loop of the RLE decoder ends ----

\* len(d) for the d that inspectBits hands to the decoder
RleLen == ctx.fileSize - ctx.pos

\* C28: the RLE decoder terminates.  Every iteration that reads a pair
\* consumes exactly two bytes; the loop is left exactly when fewer than two
\* bytes remain or the pair read with nothing pending is 00 01; the count
\* of consumed bytes is even and at most 2*floor(len/2), so that there are
\* at most floor(len/2) iterations; and the decoder, once in its loop,
\* leaves it.
C28_Terminates ==
  /\ [][ /\ RlePairStep => rle'.pos = rle.pos + 2
         /\ RleDataEnds => rle'.pos = rle.pos
         /\ pc = "rle" =>
              /\ pc' \in { "rle", "afterbits" }
              /\ pc' = "afterbits" <=>
                   \/ RleDataEnds
                   \/ RlePairStep /\ RleIdle /\ RleB1 = 0 /\ RleB2 = 1 ]_vars
  /\ [](pc \in { "rle", "afterbits" } =>
          /\ rle.pos % 2 = 0
          /\ 0 <= rle.pos /\ rle.pos <= 2 * (RleLen \div 2))
  /\ (pc = "rle") ~> (pc = "afterbits")

\* an RLE24 decode has ended after five iterations on a region of eleven
\* bytes that holds no end-of-bitmap code
C28_Witness ==
  /\ pc = "afterbits" /\ ctx.compressionCode = bI_RLE24 /\ rle.done
  /\ rle.pos = 10 /\ RleLen = 11
  /\ \A k \in 0..4 : ~(ByteAt(data, ctx.pos + 2 * k) = 0
                        /\ ByteAt(data, ctx.pos + 2 * k + 1) = 1)

\* ---- the cursor ----

ThroughPixels ==
  pc \in { "main2", "fileheader", "infoheader", "bitfields", "colortable",
           "offbits", "bits", "rows", "rle", "afterbits" }

PendingCount ==
  (IF rle.unc_pixels_left > 0 THEN 1 ELSE 0)
    + (IF rle.deltaFlag THEN 1 ELSE 0)
    + (IF rle.rle24pendingFlag THEN 1 ELSE 0)

\* C30: at the start of every iteration of the RLE decoder at most one of
\* the pending states (uncompressed run, delta, RLE24 run) is active; a
\* pending state is entered only when nothing was pending; and the RLE24
\* color buffer holds at most 2 carried bytes, none when nothing is pending
\* and exactly 2 while an RLE24 run is pending.
C30_OnePending ==
  /\ [](pc = "rle" =>
          /\ PendingCount <= 1
          /\ rle.unc_pixels_left >= 0
          /\ rle.clr24bytes_used \in 0..2
          /\ RleIdle => rle.clr24bytes_used = 0
          /\ rle.deltaFlag => rle.clr24bytes_used = 0
          /\ rle.rle24pendingFlag => rle.clr24bytes_used = 2
          /\ rle.clr24bytes_used > 0 => ctx.compressionCode = bI_RLE24)
  /\ [][ (pc = "rle" /\ pc' = "rle") =>
           /\ (~rle.deltaFlag /\ rle'.deltaFlag) => RleIdle
           /\ (~rle.rle24pendingFlag /\ rle'.rle24pendingFlag) => RleIdle
           /\ (rle.unc_pixels_left = 0 /\ rle'.unc_pixels_left > 0)
                => RleIdle ]_vars

\* an RLE24 uncompressed run is under way with two bytes of the next pixel
\* carried over to the next iteration
C30_Witness ==
  /\ pc = "rle" /\ ctx.compressionCode = bI_RLE24
  /\ rle.unc_pixels_left > 0 /\ rle.clr24bytes_used = 2
  /\ ~rle.deltaFlag /\ ~rle.rle24pendingFlag
  /\ Len(pixels) >= 2

====
